---- MODULE Spec2Model ----
(***************************************************************************)
(* QuickCall: a browser control panel (App / ChatHistory /                 *)
(* TelephonyService / lettaApi) and its companion Express server           *)
(* (/api/livekit-token, /api/make-call, /api/end-call).                    *)
(*                                                                         *)
(* JavaScript strings that the code inspects character by character (the   *)
(* phone number) are sequences of one-character strings; other strings     *)
(* are TLA+ strings.  A value that is absent from a request body and an    *)
(* empty string are both falsy in the code's `!x` tests and are both       *)
(* written "" (or << >> for a phone number).                               *)
(***************************************************************************)
EXTENDS Integers, Sequences, FiniteSets, TLC

\* ------------------------------------------------------------------ bounds
MaxReq == 2          \* concurrent POST /api/make-call requests
MaxClock == 1        \* Date.now() ranges over 0..MaxClock
MaxInFlight == 1     \* pollMessages requests in flight per agent
MaxPendingCalls == 2 \* make-call fetches in flight in the browser
MaxPendingEnds == 2  \* End Call clicks whose handlers are at an await in the browser
MaxPendingDeletes == 2 \* Clear All clicks whose handlers are at an await
MaxCalls == 2        \* calls started from the browser
MaxAgents == 3       \* entries of appState.agents
MaxHandlers == 2     \* handlers registered with the TelephonyService by onEvent
MaxOps == 3          \* method calls made on the TelephonyService
MaxEmits == 2        \* events delivered to ChatHistory's handleTelephonyEvent
MaxRoomEvents == 1   \* participant events of the Rooms of a TelephonyService
MaxDate == 1         \* Date.now() in the status panel ranges over 0..MaxDate
MaxFiles == 4        \* entries of appState.files
MaxFileList == 2     \* files of one FileList handed to handleFileUpload

Requests == 1..MaxReq

\* ------------------------------------------------------------ JS helpers
\* !x for a string held as a TLA+ string, and for one held as a sequence
Falsy(x) == x = ""
FalsySeq(s) == Len(s) = 0

Count(s, e) == Cardinality({i \in DOMAIN s : s[i] = e})

IndexOf(s, e) == IF \E i \in DOMAIN s : s[i] = e
                 THEN CHOOSE i \in DOMAIN s : s[i] = e /\ \A j \in 1..(i-1) : s[j] # e
                 ELSE 0

Digits == {"0", "1", "2", "3", "4", "5", "6", "7", "8", "9"}

\* String.prototype.startsWith for a one-character prefix
startsWith(s, c) == Len(s) > 0 /\ s[1] = c

\* ------------------------------------------------------ phone numbers
\* phoneNumber.replace(/\D/g, '')
digitsOf(phoneNumber) == SelectSeq(phoneNumber, LAMBDA c : c \in Digits)

isValidPhoneNumber(phoneNumber) ==
    LET digits == digitsOf(phoneNumber)
    IN  Len(digits) = 10 \/ (Len(digits) = 11 /\ digits[1] = "1")

\* const phoneNumber = to.startsWith('+') ? to : `+1${to}`;
normalisePhoneNumber(to) == IF startsWith(to, "+") THEN to ELSE <<"+", "1">> \o to

\* the phone numbers the make-call model is driven with
US10 == <<"5", "5", "5", "1", "2", "3", "4", "5", "6", "7">>
ToInputs == {<< >>, US10, <<"+", "1">> \o US10}
AgentIdInputs == {"", "a1"}

\* ------------------------------------------------------------- variables
VARIABLES
    now,                \* Date.now()
    LIVEKIT_API_KEY,    \* "" when not configured
    LIVEKIT_API_SECRET, \* "" when not configured
    serverUp,           \* FALSE once an uncaught exception has ended the process
    mcPc,               \* per request: position in the /api/make-call handler
    mcBody,             \* per request: req.body {to, agentId}
    mcPhoneNumber,      \* per request: const phoneNumber
    mcRoomName,         \* per request: const roomName
    mcLog,              \* per request: the steps the handler has taken, in order
    mcRes,              \* per request: the HTTP responses sent on res
    livekitRooms,       \* rooms created through roomService.createRoom
    agentProcess,       \* per request: state of the spawned agent child process
    dispatchProcess,    \* per request: state of the spawned `lk sip participant create`
    ecRes,              \* per make-call request: the responses /api/end-call sent for its call
    \* --- POST /api/livekit-token
    tkPc,               \* per request: position in the handler
    tkBody,             \* per request: req.body {roomName, participantName}
    tkJwt,              \* per request: what at.toJwt() produced
    tkLog,              \* per request: the steps the handler has taken
    tkRes,              \* per request: the HTTP responses sent on res
    \* --- lettaApi (the Letta server and LettaApiService.deleteAllAgents)
    lettaAgents,        \* the ids of the agents on the Letta server, in list order
    daPc,               \* position in deleteAllAgents, or how the call ended
    daFetch,            \* what this.getAgents() did in the current call
    daAgents,           \* const agents
    daResults,          \* const results (the success flag of each entry)
    \* --- App.tsx (AppState) and what is in flight in the browser
    agents,             \* appState.agents: sequence of [id, status]
    selectedAgent,      \* appState.selectedAgent (the Agent object as selected)
    currentSession,     \* appState.currentSession
    currentCall,        \* appState.currentCall
    pollTimers,         \* live setInterval(pollMessages) timers, per closure id
    pendingPolls,       \* getMessages requests issued by pollMessages, in flight
    loadPending,        \* loadLettaAgents is awaiting getAgents
    deletePending,      \* handleDeleteAllAgents invocations that are awaiting
    createPending,      \* isCreatingAgent
    startCalls,         \* handleStartCall invocations awaiting /api/make-call
    endCalls,           \* handleEndCall invocations awaiting /api/end-call
    \* --- ChatHistory.tsx and its TelephonyService
    showPhoneInput,
    isConnecting,
    outbound,           \* the handleStartOutboundCall in progress
    endFlows,           \* ChatHistory.handleEndCall invocations awaiting telephonyService.endCall()
    rooms,              \* the Room objects constructed so far, each by its state
    room,               \* TelephonyService.room: 0 for null, or the index in rooms of the Room held
    clock,              \* the browser's Date.now(); the awaits of a call start let it advance
    handled,            \* the handleStartCall invocation whose response was handled last
    eventHandlers,      \* TelephonyService.eventHandlers
    emitted,            \* the events emit was called with: <<Room (index in rooms), type>>
    received,           \* the <<handler, type>> deliveries of the last emit, in order
    svcCall,            \* the method called last on the TelephonyService and its result
    svcCalls,           \* number of method calls made on the TelephonyService
    svcPending,         \* the TelephonyService methods that are at an await
    \* --- App.tsx (AppState), the fields shown by StatusPanel.tsx
    context,            \* appState.context
    files,              \* appState.files: sequence of [id, name]
    isContextUpdating,  \* appState.isContextUpdating
    contextUpdates      \* the newContext of each handleContextUpdate awaiting its timer

serverVars == <<now, LIVEKIT_API_KEY, LIVEKIT_API_SECRET, serverUp, mcPc, mcBody,
                mcPhoneNumber, mcRoomName, mcLog, mcRes, livekitRooms,
                agentProcess, dispatchProcess, ecRes>>

tokenVars == <<tkPc, tkBody, tkJwt, tkLog, tkRes>>

deleteVars == <<lettaAgents, daPc, daFetch, daAgents, daResults>>

appVars == <<agents, selectedAgent, currentSession, currentCall, pollTimers, pendingPolls,
             loadPending, deletePending, createPending, startCalls, endCalls,
             showPhoneInput, isConnecting, outbound, endFlows, rooms, room, clock, handled,
             eventHandlers, emitted, received, svcCall, svcCalls, svcPending,
             context, files, isContextUpdating, contextUpdates>>

vars == <<serverVars, tokenVars, deleteVars, appVars, ecRes>>

NoBody == [to |-> << >>, agentId |-> ""]
\* a dial process: its state, its exit code (-1 while it has none), and the
\* --room and --call arguments it was spawned with
NoProcess == [state |-> "none", code |-> -1, room |-> << >>, call |-> << >>]

InitServer ==
    /\ now = 0
    /\ LIVEKIT_API_KEY \in {"", "APIkey"}
    /\ LIVEKIT_API_SECRET \in {"", "secret"}
    /\ serverUp = TRUE
    /\ mcPc = [r \in Requests |-> "idle"]
    /\ mcBody = [r \in Requests |-> NoBody]
    /\ mcPhoneNumber = [r \in Requests |-> << >>]
    /\ mcRoomName = [r \in Requests |-> << >>]
    /\ mcLog = [r \in Requests |-> << >>]
    /\ mcRes = [r \in Requests |-> << >>]
    /\ livekitRooms = {}
    /\ agentProcess = [r \in Requests |-> "none"]
    /\ dispatchProcess = [r \in Requests |-> NoProcess]
    /\ ecRes = [r \in Requests |-> << >>]

NoTokenBody == [roomName |-> "", participantName |-> ""]
NoJwt == [type |-> "none", value |-> ""]

InitToken ==
    /\ tkPc = [r \in Requests |-> "idle"]
    /\ tkBody = [r \in Requests |-> NoTokenBody]
    /\ tkJwt = [r \in Requests |-> NoJwt]
    /\ tkLog = [r \in Requests |-> << >>]
    /\ tkRes = [r \in Requests |-> << >>]

InitDelete ==
    /\ lettaAgents = << >>
    /\ daPc = "idle"
    /\ daFetch = "none"
    /\ daAgents = << >>
    /\ daResults = << >>

\* const mockFiles: FileItem[]; of a FileItem the model keeps id and name, an
\* id being the tuple of the parts it is written from
mockFiles == <<[id |-> <<"1">>, name |-> "customer_support_guide.pdf"],
               [id |-> <<"2">>, name |-> "product_catalog.xlsx"],
               [id |-> <<"3">>, name |-> "company_logo.png"]>>

\* the browser state with appState.currentCall = call, Date.now() = time and
\* the given handlers registered with the TelephonyService
InitBrowser(call, time, handlers) ==
    /\ agents = << >>
    /\ selectedAgent = [id |-> "", status |-> "none"]
    /\ currentSession = [agentId |-> ""]
    /\ currentCall = call
    /\ clock = time
    /\ handled = [agentId |-> "", response |-> "none",
                  newCall |-> [id |-> << >>, agentId |-> "", status |-> "none", startTime |-> -1,
                               endTime |-> -1, callerInfo |-> [phone |-> << >>]]]
    /\ eventHandlers = handlers
    /\ emitted = << >>
    /\ received = << >>
    /\ svcCall = [op |-> "none", hadRoom |-> FALSE, rm |-> 0, result |-> "none"]
    /\ svcCalls = 0
    /\ svcPending = << >>
    /\ pollTimers = [a \in {"a1", "a2"} |-> 0]
    /\ pendingPolls = [a \in {"a1", "a2"} |-> 0]
    /\ loadPending = TRUE
    /\ deletePending = 0
    /\ createPending = FALSE
    /\ startCalls = << >>
    /\ endCalls = << >>
    /\ showPhoneInput = FALSE
    /\ isConnecting = FALSE
    /\ outbound = [stage |-> "idle", agentId |-> "", agentFound |-> FALSE, rm |-> 0]
    /\ endFlows = << >>
    /\ rooms = << >>
    /\ room = 0
    /\ context = "initial"
    /\ files = mockFiles
    /\ isContextUpdating = FALSE
    /\ contextUpdates = << >>

\* the App as mounted: ChatHistory's effect has registered handleTelephonyEvent
\* with the TelephonyService that ChatHistory created
InitApp ==
    InitBrowser([id |-> << >>, agentId |-> "", status |-> "none", startTime |-> -1,
                 endTime |-> -1, callerInfo |-> [phone |-> << >>]], 0,
                <<"handleTelephonyEvent">>)

Init == InitServer /\ InitToken /\ InitDelete /\ InitApp

\* a server whose .env holds the LiveKit credentials
InitConfigured == Init /\ LIVEKIT_API_KEY # "" /\ LIVEKIT_API_SECRET # ""

\* ------------------------------------------------------------------ clock
Tick ==
    /\ now < MaxClock
    /\ now' = now + 1
    /\ UNCHANGED <<LIVEKIT_API_KEY, LIVEKIT_API_SECRET, tokenVars, deleteVars, appVars, ecRes, serverUp, mcPc, mcBody,
                   mcPhoneNumber, mcRoomName, mcLog, mcRes, livekitRooms,
                   agentProcess, dispatchProcess>>

\* ------------------------------------------------- POST /api/make-call
Send(r, response) == mcRes' = [mcRes EXCEPT ![r] = Append(@, response)]
Logged(r, steps) == mcLog' = [mcLog EXCEPT ![r] = @ \o steps]

\* MakeCallReceive with the credentials test placed after the createRoom call
MakeCallReceive_RoomFirst(r, to, agentId) ==
    /\ serverUp
    /\ mcPc[r] = "idle"
    /\ mcBody' = [mcBody EXCEPT ![r] = [to |-> to, agentId |-> agentId]]
    /\ IF FalsySeq(to) \/ Falsy(agentId)
       THEN /\ Send(r, [status |-> 400, error |-> "Phone number and agentId are required"])
            /\ Logged(r, <<"response">>)
            /\ mcPc' = [mcPc EXCEPT ![r] = "done"]
            /\ UNCHANGED <<mcPhoneNumber, mcRoomName>>
       ELSE /\ mcPhoneNumber' = [mcPhoneNumber EXCEPT ![r] = normalisePhoneNumber(to)]
            /\ mcRoomName' = [mcRoomName EXCEPT ![r] = <<"outbound", agentId, now>>]
            /\ IF Falsy(LIVEKIT_API_KEY) \/ Falsy(LIVEKIT_API_SECRET)
               THEN /\ Send(r, [status |-> 503, error |-> "LiveKit not configured - demo mode only"])
                    /\ Logged(r, <<"createRoom", "response">>)
                    /\ mcPc' = [mcPc EXCEPT ![r] = "done"]
               ELSE /\ Logged(r, <<"createRoom">>)
                    /\ mcPc' = [mcPc EXCEPT ![r] = "createRoom"]
                    /\ UNCHANGED mcRes
    /\ UNCHANGED <<now, LIVEKIT_API_KEY, LIVEKIT_API_SECRET, tokenVars, deleteVars, appVars, ecRes, serverUp, livekitRooms,
                   agentProcess, dispatchProcess>>

\* the handler from its entry to the first await (roomService.createRoom)
MakeCallReceive(r, to, agentId) ==
    /\ serverUp
    /\ mcPc[r] = "idle"
    /\ mcBody' = [mcBody EXCEPT ![r] = [to |-> to, agentId |-> agentId]]
    /\ IF FalsySeq(to) \/ Falsy(agentId)
       THEN /\ Send(r, [status |-> 400, error |-> "Phone number and agentId are required"])
            /\ Logged(r, <<"response">>)
            /\ mcPc' = [mcPc EXCEPT ![r] = "done"]
            /\ UNCHANGED <<mcPhoneNumber, mcRoomName>>
       ELSE /\ mcPhoneNumber' = [mcPhoneNumber EXCEPT ![r] = normalisePhoneNumber(to)]
            /\ mcRoomName' = [mcRoomName EXCEPT ![r] = <<"outbound", agentId, now>>]
            /\ IF Falsy(LIVEKIT_API_KEY) \/ Falsy(LIVEKIT_API_SECRET)
               THEN /\ Send(r, [status |-> 503, error |-> "LiveKit not configured - demo mode only"])
                    /\ Logged(r, <<"response">>)
                    /\ mcPc' = [mcPc EXCEPT ![r] = "done"]
               ELSE /\ Logged(r, <<"createRoom">>)
                    /\ mcPc' = [mcPc EXCEPT ![r] = "createRoom"]
                    /\ UNCHANGED mcRes
    /\ UNCHANGED <<now, LIVEKIT_API_KEY, LIVEKIT_API_SECRET, tokenVars, deleteVars, appVars, ecRes, serverUp, livekitRooms,
                   agentProcess, dispatchProcess>>

\* roomService.createRoom rejects: the catch block answers 500
CreateRoomRejects(r) ==
    /\ serverUp
    /\ mcPc[r] = "createRoom"
    /\ Send(r, [status |-> 500, error |-> "Failed to make call"])
    /\ Logged(r, <<"createRoomThrew", "response">>)
    /\ mcPc' = [mcPc EXCEPT ![r] = "done"]
    /\ UNCHANGED <<now, LIVEKIT_API_KEY, LIVEKIT_API_SECRET, tokenVars, deleteVars, appVars, ecRes, serverUp, mcBody,
                   mcPhoneNumber, mcRoomName, livekitRooms, agentProcess, dispatchProcess>>

\* the room roomService.createRoom is asked for
TheRoom(r) == [name |-> mcRoomName[r],
               metadata |-> [agent_id |-> mcBody[r].agentId,
                             phone_number |-> mcPhoneNumber[r]]]

\* CreateRoomResolves with the dial command spawned at once instead of from
\* the setTimeout callback
CreateRoomResolves_NoWait(r, outcome, logStream) ==
    /\ serverUp
    /\ mcPc[r] = "createRoom"
    /\ livekitRooms' = livekitRooms \cup {TheRoom(r)}
    /\ IF outcome = "throws"
       THEN /\ Send(r, [status |-> 500, error |-> "Failed to make call"])
            /\ Logged(r, <<"roomCreated", "response">>)
            /\ mcPc' = [mcPc EXCEPT ![r] = "done"]
            /\ UNCHANGED <<agentProcess, dispatchProcess>>
       ELSE /\ agentProcess' = [agentProcess EXCEPT ![r] = outcome]
            /\ dispatchProcess' = [dispatchProcess EXCEPT ![r] =
                    [state |-> "running", code |-> -1,
                     room |-> mcRoomName[r], call |-> mcPhoneNumber[r]]]
            /\ Logged(r, <<"roomCreated", "agentSpawn", "sipSpawn">>)
            /\ mcPc' = [mcPc EXCEPT ![r] = IF logStream = "fails" THEN "streamError" ELSE "dial"]
            /\ UNCHANGED mcRes
    /\ UNCHANGED <<now, LIVEKIT_API_KEY, LIVEKIT_API_SECRET, tokenVars, deleteVars, appVars, ecRes, serverUp, mcBody,
                   mcPhoneNumber, mcRoomName>>

\* roomService.createRoom resolves; the handler runs on to setTimeout.
\* outcome "running": the agent process is spawned and starts;
\* outcome "failedToStart": spawn emits 'error' (handled by the listener);
\* outcome "throws": fs.mkdirSync of the logs directory throws before the spawn.
\* logStream "fails": fs.createWriteStream cannot open the agent log file; it
\*   returns a stream all the same and the handler runs on as with "opens",
\*   the stream's 'error' event follows later (AgentLogStreamError).
CreateRoomResolves(r, outcome, logStream) ==
    /\ serverUp
    /\ mcPc[r] = "createRoom"
    /\ livekitRooms' = livekitRooms \cup {TheRoom(r)}
    /\ IF outcome = "throws"
       THEN /\ Send(r, [status |-> 500, error |-> "Failed to make call"])
            /\ Logged(r, <<"roomCreated", "response">>)
            /\ mcPc' = [mcPc EXCEPT ![r] = "done"]
            /\ UNCHANGED agentProcess
       ELSE /\ agentProcess' = [agentProcess EXCEPT ![r] = outcome]
            /\ Logged(r, <<"roomCreated", "agentSpawn">>)
            /\ mcPc' = [mcPc EXCEPT ![r] = IF logStream = "fails" THEN "streamError" ELSE "timer"]
            /\ UNCHANGED mcRes
    /\ UNCHANGED <<now, LIVEKIT_API_KEY, LIVEKIT_API_SECRET, tokenVars, deleteVars, appVars, ecRes, serverUp, mcBody,
                   mcPhoneNumber, mcRoomName, dispatchProcess>>

\* agentLogStream emits 'error' (the open failed, e.g. ENOTDIR when `logs` is a
\* regular file): the stream has no 'error' listener, so the event is an
\* uncaught exception and ends the server process.  The open fails long before
\* the two seconds of the request's timer are over.
AgentLogStreamError(r) ==
    /\ serverUp
    /\ mcPc[r] = "streamError"
    /\ serverUp' = FALSE
    /\ UNCHANGED <<now, LIVEKIT_API_KEY, LIVEKIT_API_SECRET, tokenVars, deleteVars, appVars, ecRes, mcPc, mcBody,
                   mcPhoneNumber, mcRoomName, mcLog, mcRes, livekitRooms,
                   agentProcess, dispatchProcess>>

\* the agent child process exits by itself; the 'close' listener only logs
AgentExits(r) ==
    /\ serverUp
    /\ agentProcess[r] = "running"
    /\ agentProcess' = [agentProcess EXCEPT ![r] = "exited"]
    /\ UNCHANGED <<now, LIVEKIT_API_KEY, LIVEKIT_API_SECRET, tokenVars, deleteVars, appVars, ecRes, serverUp, mcPc, mcBody,
                   mcPhoneNumber, mcRoomName, mcLog, mcRes, livekitRooms, dispatchProcess>>

DialProcess(r, state) == [state |-> state, code |-> -1,
                          room |-> mcRoomName[r], call |-> mcPhoneNumber[r]]

\* the setTimeout(..., 2000) callback: spawn('lk', ['sip','participant','create',...]).
\* outcome "started": the dial process runs;
\* outcome "spawnError": the command cannot be started; dispatchProcess has no
\*   'error' listener and the callback is outside the try block, so the
\*   exception is uncaught and ends the server process.
TimerFires(r, outcome) ==
    /\ serverUp
    /\ mcPc[r] = "timer"
    /\ IF outcome = "started"
       THEN /\ dispatchProcess' = [dispatchProcess EXCEPT ![r] = DialProcess(r, "running")]
            /\ Logged(r, <<"timer", "sipSpawn">>)
            /\ mcPc' = [mcPc EXCEPT ![r] = "dial"]
            /\ UNCHANGED serverUp
       ELSE /\ dispatchProcess' = [dispatchProcess EXCEPT ![r] = DialProcess(r, "spawnError")]
            /\ Logged(r, <<"timer", "sipSpawn">>)
            /\ serverUp' = FALSE
            /\ UNCHANGED mcPc
    /\ UNCHANGED <<now, LIVEKIT_API_KEY, LIVEKIT_API_SECRET, tokenVars, deleteVars, appVars, ecRes, mcBody, mcPhoneNumber,
                   mcRoomName, mcRes, livekitRooms, agentProcess>>

\* agentProcess.kill(): ends a running child, no effect on one that is gone
kill(p) == IF p = "running" THEN "killed" ELSE p

\* SipCloses that dials again when the dial command fails
SipCloses_Retry(r, code) ==
    /\ serverUp
    /\ mcPc[r] = "dial"
    /\ IF code = 0
       THEN /\ dispatchProcess' = [dispatchProcess EXCEPT ![r].state = "closed", ![r].code = code]
            /\ Send(r, [status |-> 200, roomName |-> mcRoomName[r], callStatus |-> "dispatched",
                        phoneNumber |-> mcPhoneNumber[r], agentId |-> mcBody[r].agentId])
            /\ Logged(r, <<"sipClose", "response">>)
            /\ mcPc' = [mcPc EXCEPT ![r] = "done"]
       ELSE /\ Logged(r, <<"sipClose", "sipSpawn">>)
            /\ UNCHANGED <<dispatchProcess, mcRes, mcPc>>
    /\ UNCHANGED <<now, LIVEKIT_API_KEY, LIVEKIT_API_SECRET, tokenVars, deleteVars, appVars, ecRes, serverUp, mcBody,
                   mcPhoneNumber, mcRoomName, livekitRooms, agentProcess>>

\* SipCloses that leaves the agent process running when the dial command fails
SipCloses_NoKill(r, code) ==
    /\ serverUp
    /\ mcPc[r] = "dial"
    /\ dispatchProcess' = [dispatchProcess EXCEPT ![r].state = "closed", ![r].code = code]
    /\ IF code = 0
       THEN /\ Send(r, [status |-> 200, roomName |-> mcRoomName[r], callStatus |-> "dispatched",
                        phoneNumber |-> mcPhoneNumber[r], agentId |-> mcBody[r].agentId])
            /\ Logged(r, <<"sipClose", "response">>)
       ELSE /\ Send(r, [status |-> 500, error |-> "SIP call failed"])
            /\ Logged(r, <<"sipClose", "response">>)
    /\ mcPc' = [mcPc EXCEPT ![r] = "done"]
    /\ UNCHANGED <<now, LIVEKIT_API_KEY, LIVEKIT_API_SECRET, tokenVars, deleteVars, appVars, ecRes, serverUp, mcBody,
                   mcPhoneNumber, mcRoomName, livekitRooms, agentProcess>>

\* dispatchProcess.on('close', code => ...)
SipCloses(r, code) ==
    /\ serverUp
    /\ mcPc[r] = "dial"
    /\ dispatchProcess' = [dispatchProcess EXCEPT ![r].state = "closed", ![r].code = code]
    /\ IF code = 0
       THEN /\ Send(r, [status |-> 200, roomName |-> mcRoomName[r], callStatus |-> "dispatched",
                        phoneNumber |-> mcPhoneNumber[r], agentId |-> mcBody[r].agentId])
            /\ Logged(r, <<"sipClose", "response">>)
            /\ UNCHANGED agentProcess
       ELSE /\ agentProcess' = [agentProcess EXCEPT ![r] = kill(@)]
            /\ Send(r, [status |-> 500, error |-> "SIP call failed"])
            /\ Logged(r, <<"sipClose", "agentKill", "response">>)
    /\ mcPc' = [mcPc EXCEPT ![r] = "done"]
    /\ UNCHANGED <<now, LIVEKIT_API_KEY, LIVEKIT_API_SECRET, tokenVars, deleteVars, appVars, ecRes, serverUp, mcBody,
                   mcPhoneNumber, mcRoomName, livekitRooms>>

ExitCodes == {0, 1}

Next ==
    \/ Tick
    \/ \E r \in Requests, to \in ToInputs, agentId \in AgentIdInputs : MakeCallReceive(r, to, agentId)
    \/ \E r \in Requests : CreateRoomRejects(r)
    \/ \E r \in Requests, outcome \in {"running", "failedToStart", "throws"},
          logStream \in {"opens", "fails"} : CreateRoomResolves(r, outcome, logStream)
    \/ \E r \in Requests : AgentLogStreamError(r)
    \/ \E r \in Requests : AgentExits(r)
    \/ \E r \in Requests, outcome \in {"started", "spawnError"} : TimerFires(r, outcome)
    \/ \E r \in Requests, code \in ExitCodes : SipCloses(r, code)

Spec == Init /\ [][Next]_vars

TypeOK ==
    /\ now \in 0..MaxClock
    /\ serverUp \in BOOLEAN
    /\ \A r \in Requests : mcPc[r] \in {"idle", "createRoom", "timer", "streamError", "dial", "done"}
    /\ \A r \in Requests : Len(mcRes[r]) <= 1
\* ======================================================= make-call claims
Pos(r, step) == IndexOf(mcLog[r], step)
\* step b, if taken, was preceded by step a
Before(r, a, b) == Pos(r, b) # 0 => (Pos(r, a) # 0 /\ Pos(r, a) < Pos(r, b))
PassedValidation(r) == Pos(r, "createRoom") # 0
Responded(r) == Len(mcRes[r]) > 0

StepOrder(r) ==
    /\ Before(r, "createRoom", "roomCreated")
    /\ Before(r, "roomCreated", "agentSpawn")
    /\ Before(r, "agentSpawn", "timer")
    /\ Before(r, "timer", "sipSpawn")
    /\ Before(r, "sipSpawn", "sipClose")

\* C1 (as stated): for every request that passes validation the steps are
\* createRoom succeeds, agent spawn, timer, SIP dial spawn, and the HTTP
\* response is sent only after the SIP dial process has closed.
C1_Original ==
    \A r \in Requests :
        /\ StepOrder(r)
        /\ (PassedValidation(r) /\ Responded(r)) => Before(r, "sipClose", "response")

\* C1 (amended): the steps a request takes are in the order room created,
\* agent spawned, timer elapsed, SIP dial spawned, SIP dial closed; no SIP dial
\* is spawned before the agent and no agent before the room creation has
\* succeeded; and once the agent process has been spawned the HTTP response is
\* sent only after the SIP dial process has closed.  (A request whose room
\* creation or agent set-up throws is answered 500 with no SIP dial at all.)
C1_StepOrder ==
    \A r \in Requests :
        /\ StepOrder(r)
        /\ (Pos(r, "agentSpawn") # 0 /\ Responded(r)) => Before(r, "sipClose", "response")

C1_Witness ==
    \E r \in Requests :
        mcLog[r] = <<"createRoom", "roomCreated", "agentSpawn", "timer", "sipSpawn",
                     "sipClose", "response">>

\* C2: one request makes at most one createRoom call, one agent spawn and one
\* SIP dial spawn, also after a step has failed.
C2_AtMostOnce ==
    \A r \in Requests :
        /\ Count(mcLog[r], "createRoom") <= 1
        /\ Count(mcLog[r], "agentSpawn") <= 1
        /\ Count(mcLog[r], "sipSpawn") <= 1

\* a request whose dial failed and one whose room creation failed, both finished
C2_Witness ==
    /\ \E r \in Requests : mcPc[r] = "done" /\ dispatchProcess[r].state = "closed"
                           /\ dispatchProcess[r].code # 0
    /\ \E r \in Requests : mcPc[r] = "done" /\ Pos(r, "createRoomThrew") # 0

\* C3: a SIP dial that closes with a non-zero code makes the server kill the
\* request's agent process and answer 500 'SIP call failed'; exit code 0 makes
\* it answer 200 'dispatched' with the room name, the normalised number and the
\* agentId and leaves the agent alone.  Killing the agent is the only recovery:
\* it happens in no other case and a created room is never removed.
C3_DialResult ==
    \A r \in Requests :
        /\ (dispatchProcess[r].state = "closed" /\ dispatchProcess[r].code # 0) =>
              /\ mcRes[r] = <<[status |-> 500, error |-> "SIP call failed"]>>
              /\ Count(mcLog[r], "agentKill") = 1
              /\ agentProcess[r] # "running"
        /\ (dispatchProcess[r].state = "closed" /\ dispatchProcess[r].code = 0) =>
              /\ mcRes[r] = <<[status |-> 200,
                               roomName |-> <<"outbound", mcBody[r].agentId, mcRoomName[r][3]>>,
                               callStatus |-> "dispatched",
                               phoneNumber |-> normalisePhoneNumber(mcBody[r].to),
                               agentId |-> mcBody[r].agentId]>>
              /\ Count(mcLog[r], "agentKill") = 0
              /\ agentProcess[r] # "killed"
        /\ agentProcess[r] = "killed" =>
              (dispatchProcess[r].state = "closed" /\ dispatchProcess[r].code # 0)
        /\ Pos(r, "roomCreated") # 0 => TheRoom(r) \in livekitRooms

\* a failed dial whose agent was running and was killed, next to a successful one
C3_Witness ==
    /\ \E r \in Requests : dispatchProcess[r].code = 1 /\ agentProcess[r] = "killed"
    /\ \E r \in Requests : dispatchProcess[r].code = 0 /\ agentProcess[r] = "running"

\* C4: a 400 or 503 answer means no room was created and no child process
\* spawned for the request; a 500 'Failed to make call' caused by createRoom
\* throwing means no child process was spawned.
C4_EarlyExit ==
    \A r \in Requests :
        /\ (Responded(r) /\ mcRes[r][1].status \in {400, 503}) =>
              /\ Count(mcLog[r], "createRoom") = 0
              /\ Count(mcLog[r], "roomCreated") = 0
              /\ agentProcess[r] = "none"
              /\ dispatchProcess[r].state = "none"
        /\ (Responded(r) /\ Pos(r, "createRoomThrew") # 0) =>
              /\ mcRes[r] = <<[status |-> 500, error |-> "Failed to make call"]>>
              /\ agentProcess[r] = "none"
              /\ dispatchProcess[r].state = "none"

C4_Witness400 ==
    /\ \E r \in Requests : Responded(r) /\ mcRes[r][1].status = 400
    /\ \E r \in Requests : Responded(r) /\ Pos(r, "createRoomThrew") # 0

\* C9: every request gets exactly one HTTP response: a request the server will
\* take no further step for (its handler has finished, or the server process
\* has ended) has been answered once, and none is ever answered twice.
C9_ExactlyOneResponse ==
    \A r \in Requests :
        /\ Len(mcRes[r]) <= 1
        /\ (mcPc[r] # "idle" /\ (mcPc[r] = "done" \/ ~serverUp)) => Len(mcRes[r]) = 1

\* C11: every /api/make-call request gets a room of its own: no two distinct
\* requests (two requests for the same agentId in the same clock millisecond
\* included) are given the same room name, so no two agent processes and no
\* two SIP participants of different requests are sent to the same room.
C11_UniqueRoom ==
    \A r1, r2 \in Requests :
        (r1 # r2 /\ PassedValidation(r1) /\ PassedValidation(r2)) =>
            /\ mcRoomName[r1] # mcRoomName[r2]
            /\ (agentProcess[r1] # "none" /\ agentProcess[r2] # "none") =>
                   mcRoomName[r1] # mcRoomName[r2]
            /\ (dispatchProcess[r1].state # "none" /\ dispatchProcess[r2].state # "none") =>
                   dispatchProcess[r1].room # dispatchProcess[r2].room
\* ---------------------------------------------------- POST /api/end-call
\* App.handleEndCall posts {phoneNumber: currentCall.callerInfo.phone, agentId}
\* for the call whose /api/make-call request is r; the browser can do so from
\* the moment it has sent that request.  The handler logs and answers.
EndCallReceive(r) ==
    /\ serverUp
    /\ mcPc[r] # "idle"
    /\ Len(ecRes[r]) = 0
    /\ ecRes' = [ecRes EXCEPT ![r] = Append(@, [status |-> 200, success |-> TRUE,
                                                 phoneNumber |-> mcBody[r].to])]
    /\ UNCHANGED <<now, LIVEKIT_API_KEY, LIVEKIT_API_SECRET, tokenVars, deleteVars, appVars,
                   serverUp, mcPc, mcBody, mcPhoneNumber, mcRoomName, mcLog, mcRes,
                   livekitRooms, agentProcess, dispatchProcess>>

\* a call placed from the browser and ended from the browser
NextEnd ==
    \/ Tick
    \/ \E r \in Requests : MakeCallReceive(r, US10, "a1")
    \/ \E r \in Requests : CreateRoomRejects(r)
    \/ \E r \in Requests, outcome \in {"running", "failedToStart"} : CreateRoomResolves(r, outcome, "opens")
    \/ \E r \in Requests : AgentExits(r)
    \/ \E r \in Requests : TimerFires(r, "started")
    \/ \E r \in Requests, code \in ExitCodes : SipCloses(r, code)
    \/ \E r \in Requests : EndCallReceive(r)

SpecEnd == InitConfigured /\ [][NextEnd]_vars

\* C12: once POST /api/end-call has completed for a call, the agent process
\* the server spawned for that call is no longer running, and no SIP dial for
\* that call is spawned afterwards.
C12_EndCallStopsAgent ==
    /\ [](\A r \in Requests : Len(ecRes[r]) > 0 => agentProcess[r] # "running")
    /\ [][\A r \in Requests :
             Len(ecRes[r]) > 0 =>
                 ~(dispatchProcess[r].state = "none" /\ dispatchProcess'[r].state # "none")]_vars

\* ================================================ POST /api/livekit-token
RoomNameInputs == {"", "outbound-a1-0", "call-1"}
ParticipantNameInputs == {"", "agent-a1"}
\* what `await at.toJwt()` can evaluate to
JwtResults == {[type |-> "string", value |-> "eyJ"],
               [type |-> "string", value |-> ""],
               [type |-> "undefined", value |-> ""]}

TokenSend(r, response) == tkRes' = [tkRes EXCEPT ![r] = Append(@, response)]
TokenLogged(r, steps) == tkLog' = [tkLog EXCEPT ![r] = @ \o steps]
TokenError == [status |-> 500, error |-> "Failed to generate token"]

\* typeof jwt === 'string' && jwt.length > 0
ValidJwt(jwt) == jwt.type = "string" /\ jwt.value # ""

\* TokenReceive whose 400 branch lacks the `return`
TokenReceive_NoReturn(r, roomName, participantName) ==
    /\ serverUp
    /\ tkPc[r] = "idle"
    /\ tkBody' = [tkBody EXCEPT ![r] = [roomName |-> roomName, participantName |-> participantName]]
    /\ IF Falsy(roomName) \/ Falsy(participantName)
       THEN /\ TokenSend(r, [status |-> 400, error |-> "roomName and participantName are required"])
            /\ TokenLogged(r, <<"response", "generate", "toJwt">>)
            /\ tkPc' = [tkPc EXCEPT ![r] = "toJwt"]
       ELSE IF Falsy(LIVEKIT_API_KEY) \/ Falsy(LIVEKIT_API_SECRET)
       THEN /\ TokenSend(r, TokenError)
            /\ TokenLogged(r, <<"generate", "response">>)
            /\ tkPc' = [tkPc EXCEPT ![r] = "done"]
       ELSE /\ TokenLogged(r, <<"generate", "toJwt">>)
            /\ tkPc' = [tkPc EXCEPT ![r] = "toJwt"]
            /\ UNCHANGED tkRes
    /\ UNCHANGED <<tkJwt, serverVars, deleteVars, appVars>>

\* the handler and generateLiveKitToken up to `await at.toJwt()`
TokenReceive(r, roomName, participantName) ==
    /\ serverUp
    /\ tkPc[r] = "idle"
    /\ tkBody' = [tkBody EXCEPT ![r] = [roomName |-> roomName, participantName |-> participantName]]
    /\ IF Falsy(roomName) \/ Falsy(participantName)
       THEN /\ TokenSend(r, [status |-> 400, error |-> "roomName and participantName are required"])
            /\ TokenLogged(r, <<"response">>)
            /\ tkPc' = [tkPc EXCEPT ![r] = "done"]
       ELSE IF Falsy(LIVEKIT_API_KEY) \/ Falsy(LIVEKIT_API_SECRET)
       THEN \* generateLiveKitToken throws 'LiveKit API credentials not configured'
            /\ TokenSend(r, TokenError)
            /\ TokenLogged(r, <<"generate", "response">>)
            /\ tkPc' = [tkPc EXCEPT ![r] = "done"]
       ELSE /\ TokenLogged(r, <<"generate", "toJwt">>)
            /\ tkPc' = [tkPc EXCEPT ![r] = "toJwt"]
            /\ UNCHANGED tkRes
    /\ UNCHANGED <<tkJwt, serverVars, deleteVars, appVars>>

\* at.toJwt() resolves with jwt; generateLiveKitToken returns it or throws
TokenSigned(r, jwt) ==
    /\ serverUp
    /\ tkPc[r] = "toJwt"
    /\ tkJwt' = [tkJwt EXCEPT ![r] = jwt]
    /\ IF ValidJwt(jwt)
       THEN TokenSend(r, [status |-> 200, token |-> jwt.value, wsUrl |-> "LIVEKIT_WS_URL",
                          roomName |-> tkBody[r].roomName,
                          participantName |-> tkBody[r].participantName])
       ELSE TokenSend(r, TokenError)
    /\ TokenLogged(r, <<"response">>)
    /\ tkPc' = [tkPc EXCEPT ![r] = "done"]
    /\ UNCHANGED <<tkBody, serverVars, deleteVars, appVars>>

\* at.toJwt() rejects: the catch block answers 500
TokenSignRejects(r) ==
    /\ serverUp
    /\ tkPc[r] = "toJwt"
    /\ tkJwt' = [tkJwt EXCEPT ![r] = [type |-> "rejected", value |-> ""]]
    /\ TokenSend(r, TokenError)
    /\ TokenLogged(r, <<"response">>)
    /\ tkPc' = [tkPc EXCEPT ![r] = "done"]
    /\ UNCHANGED <<tkBody, serverVars, deleteVars, appVars>>

NextToken ==
    \/ \E r \in Requests, roomName \in RoomNameInputs, participantName \in ParticipantNameInputs :
           TokenReceive(r, roomName, participantName)
    \/ \E r \in Requests, jwt \in JwtResults : TokenSigned(r, jwt)
    \/ \E r \in Requests : TokenSignRejects(r)

SpecToken == Init /\ [][NextToken]_vars

\* C5: /api/livekit-token answers 400 without generating a token when roomName
\* or participantName is missing; 500 'Failed to generate token' when a
\* credential is missing or signing yields no non-empty string; otherwise 200
\* with a non-empty token and the requested roomName and participantName; and a
\* request is answered exactly once.
C5_TokenResponse ==
    \A r \in Requests :
        /\ Len(tkRes[r]) <= 1
        /\ tkPc[r] = "done" =>
             /\ Len(tkRes[r]) = 1
             /\ IF Falsy(tkBody[r].roomName) \/ Falsy(tkBody[r].participantName)
                THEN /\ tkRes[r][1].status = 400
                     /\ Count(tkLog[r], "generate") = 0
                     /\ Count(tkLog[r], "toJwt") = 0
                ELSE IF Falsy(LIVEKIT_API_KEY) \/ Falsy(LIVEKIT_API_SECRET)
                        \/ ~(tkJwt[r].type = "string" /\ tkJwt[r].value # "")
                THEN tkRes[r][1] = [status |-> 500, error |-> "Failed to generate token"]
                ELSE /\ tkRes[r][1].status = 200
                     /\ tkRes[r][1].token # ""
                     /\ tkRes[r][1].roomName = tkBody[r].roomName
                     /\ tkRes[r][1].participantName = tkBody[r].participantName

\* one request answered 200 and one answered 500 after signing gave no string
C5_Witness ==
    /\ \E r \in Requests : tkPc[r] = "done" /\ tkRes[r][1].status = 200
    /\ \E r \in Requests : tkPc[r] = "done" /\ tkJwt[r].type = "undefined"
                           /\ tkRes[r][1].status = 500
\* ============================================ lettaApi.deleteAllAgents
LettaIds == {"a1", "a2", "a3"}

Range(s) == {s[i] : i \in DOMAIN s}

\* the Letta server gains an agent (createAgent by this or another client)
LettaAgentCreated(id) ==
    /\ id \notin Range(lettaAgents)
    /\ lettaAgents' = Append(lettaAgents, id)
    /\ UNCHANGED <<daPc, daFetch, daAgents, daResults, serverVars, tokenVars, appVars>>

\* deleteAllAgents() is called and awaits this.getAgents()
DeleteAllAgentsCall ==
    /\ daPc \in {"idle", "resolved", "rejected"}
    /\ daPc' = "getAgents"
    /\ daFetch' = "none"
    /\ daAgents' = << >>
    /\ daResults' = << >>
    /\ UNCHANGED <<lettaAgents, serverVars, tokenVars, appVars>>

\* getAgents() throws; the outer catch rethrows 'Failed to delete all agents: ...'
GetAgentsThrows ==
    /\ daPc = "getAgents"
    /\ daFetch' = "threw"
    /\ daPc' = "rejected"
    /\ UNCHANGED <<lettaAgents, daAgents, daResults, serverVars, tokenVars, appVars>>

\* getAgents() returns the server's list
GetAgentsReturns ==
    /\ daPc = "getAgents"
    /\ daFetch' = "returned"
    /\ daAgents' = lettaAgents
    /\ daPc' = IF Len(lettaAgents) = 0 THEN "resolved" ELSE "deleting"
    /\ UNCHANGED <<lettaAgents, daResults, serverVars, tokenVars, appVars>>

successCount(results) == Cardinality({i \in DOMAIN results : results[i]})
failCount(results) == Cardinality({i \in DOMAIN results : ~results[i]})

\* daOutcome that throws as soon as one deletion failed
daOutcome_AnyFailure(results) ==
    IF failCount(results) > 0 THEN "rejected" ELSE "resolved"

\* after the loop: throw only if ALL deletions failed (the outer catch rethrows
\* that error unchanged)
daOutcome(results) ==
    IF failCount(results) > 0 /\ successCount(results) = 0 THEN "rejected" ELSE "resolved"

\* one turn of the for loop: this.deleteAgent(agent.id) succeeds or throws
DeleteAgentDone(success) ==
    /\ daPc = "deleting"
    /\ LET agent == daAgents[Len(daResults) + 1]
           results == Append(daResults, success)
       IN  /\ lettaAgents' = IF success THEN SelectSeq(lettaAgents, LAMBDA id : id # agent)
                                        ELSE lettaAgents
           /\ daResults' = results
           /\ daPc' = IF Len(results) = Len(daAgents) THEN daOutcome(results) ELSE "deleting"
    /\ UNCHANGED <<daFetch, daAgents, serverVars, tokenVars, appVars>>

NextDelete ==
    \/ \E id \in LettaIds : LettaAgentCreated(id)
    \/ DeleteAllAgentsCall
    \/ GetAgentsThrows
    \/ GetAgentsReturns
    \/ \E success \in BOOLEAN : DeleteAgentDone(success)

SpecDelete == Init /\ [][NextDelete]_vars

\* C6: deleteAllAgents() rejects iff fetching the list fails, or the list is
\* non-empty and every deletion fails; otherwise (empty list, or at least one
\* deletion succeeded) it resolves.
C6_RejectsIff ==
    daPc \in {"resolved", "rejected"} =>
        (daPc = "rejected" <=>
            \/ daFetch = "threw"
            \/ /\ daFetch = "returned"
               /\ Len(daAgents) > 0
               /\ Len(daResults) = Len(daAgents)
               /\ \A i \in DOMAIN daResults : ~daResults[i])

\* a call that resolved although one of several deletions failed
C6_Witness ==
    /\ daPc = "resolved"
    /\ Len(daAgents) >= 2
    /\ \E i \in DOMAIN daResults : ~daResults[i]
    /\ \E i \in DOMAIN daResults : daResults[i]
\* ===================================== phone numbers reaching the dial step
D555 == <<"5", "5", "5">>
D123 == <<"1", "2", "3">>
D4567 == <<"4", "5", "6", "7">>
\* what a user types into the phone field (placeholder "(555) 123-4567"),
\* after ChatHistory's trim()
PhoneInputs ==
    { US10,                                                         \* 5551234567
      <<"+", "1">> \o US10,                                         \* +15551234567
      <<"1">> \o US10,                                              \* 15551234567
      <<"(">> \o D555 \o <<")", " ">> \o D123 \o <<"-">> \o D4567,  \* (555) 123-4567
      D555 \o <<"-">> \o D123 \o <<"-">> \o D4567,                  \* 555-123-4567
      <<"+", "1", " ">> \o D555 \o <<" ">> \o D123 \o <<" ">> \o D4567, \* +1 555 123 4567
      D123 \o <<"-">> \o D4567,                                     \* 123-4567
      <<"+", "4", "4">> \o US10 }                                   \* +445551234567

\* E.164: '+' followed only by digits, at most 15 of them, not starting with 0
IsE164(s) ==
    /\ Len(s) >= 2
    /\ Len(s) <= 16
    /\ s[1] = "+"
    /\ \A i \in 2..Len(s) : s[i] \in Digits
    /\ s[2] # "0"

NextDial ==
    \/ \E r \in Requests, to \in PhoneInputs : MakeCallReceive(r, to, "a1")
    \/ \E r \in Requests : CreateRoomResolves(r, "running", "opens")
    \/ \E r \in Requests : TimerFires(r, "started")
    \/ \E r \in Requests, code \in ExitCodes : SipCloses(r, code)

SpecDial == Init /\ [][NextDial]_vars

\* C10: for every `to` that isValidPhoneNumber accepts, the number put in the
\* room metadata and the number passed to the SIP dial command are E.164: a
\* '+' followed only by digits, at most 15.
C10_E164 ==
    \A r \in Requests :
        isValidPhoneNumber(mcBody[r].to) =>
            /\ Pos(r, "roomCreated") # 0 =>
                  \E created \in livekitRooms :
                      /\ created.name = mcRoomName[r]
                      /\ created.metadata.phone_number = mcPhoneNumber[r]
                      /\ IsE164(created.metadata.phone_number)
            /\ dispatchProcess[r].state # "none" => IsE164(dispatchProcess[r].call)
\* ======================================================== App (browser)
\* React applies a state update and runs the effects that depend on it before
\* the next event is handled; an action below is one event handler (or one
\* continuation after an await) together with the effects it triggers.
\* Message lists are not part of this section's state.
AppAgentIds == {"a1", "a2"}

NoAgent == [id |-> "", status |-> "none"]
NoSession == [agentId |-> ""]
\* a VoiceCall {id, agentId, status, startTime, endTime?, callerInfo: {phone}};
\* endTime is -1 while the call has none
NoCall == [id |-> << >>, agentId |-> "", status |-> "none", startTime |-> -1,
           endTime |-> -1, callerInfo |-> [phone |-> << >>]]
\* a handleStartOutboundCall in progress: where it is, the agent and the
\* agents.find result of its closure, and the Room its startOutboundCall made
NoFlow == [stage |-> "idle", agentId |-> "", agentFound |-> FALSE, rm |-> 0]
\* a handleStartCall invocation whose request has been answered: the agentId
\* and newCall of its closure and the answer
NoInvocation == [agentId |-> "", newCall |-> NoCall, response |-> "none"]

\* the lists lettaApi.getAgents() can return (ids, after the 'sleeptime' filter)
AgentLists ==
    {s \in UNION {[1..n -> AppAgentIds] : n \in 0..Cardinality(AppAgentIds)} :
        \A i, j \in DOMAIN s : i # j => s[i] # s[j]}

\* lettaAgents.filter(...).map(agent => ({id, status: 'online', ...}))
formattedAgents(list) == [i \in DOMAIN list |-> [id |-> list[i], status |-> "online"]]

\* prev.agents.map(a => a.id === agentId ? {...a, status} : a)
withStatus(ags, agentId, status) ==
    [i \in DOMAIN ags |-> IF ags[i].id = agentId THEN [ags[i] EXCEPT !.status = status]
                                                 ELSE ags[i]]

\* appState.agents.find(a => a.id === agentId) !== undefined
found(ags, agentId) == \E i \in DOMAIN ags : ags[i].id = agentId

\* pollEffect without the clearInterval clean-up
pollEffect_NoCleanup(timers, oldId, newId) ==
    IF oldId = newId THEN timers
    ELSE IF newId # "" THEN [timers EXCEPT ![newId] = @ + 1] ELSE timers

\* useEffect(..., [appState.selectedAgent?.id]): when the id changes the
\* clean-up clears the interval of the old id, then the effect starts one for
\* the new id unless there is none.  timers[a] = number of live intervals whose
\* pollMessages closure holds id a.
pollEffect(timers, oldId, newId) ==
    IF oldId = newId THEN timers
    ELSE LET cleared == IF oldId # "" THEN [timers EXCEPT ![oldId] = @ - 1] ELSE timers
         IN  IF newId # "" THEN [cleared EXCEPT ![newId] = @ + 1] ELSE cleared

\* handleTelephonyEvent that rebuilds the call instead of spreading currentCall
handleTelephonyEvent_Rebuild(call, type, time) ==
    IF call = NoCall THEN call
    ELSE IF type = "call_started" THEN [NoCall EXCEPT !.id = call.id, !.status = "connected"]
    ELSE IF type = "call_ended" THEN [NoCall EXCEPT !.id = call.id, !.status = "ended", !.endTime = time]
    ELSE IF type = "error" THEN [NoCall EXCEPT !.id = call.id, !.status = "failed", !.endTime = time]
    ELSE call

\* ChatHistory handleTelephonyEvent followed by App.handleCallStatusUpdate: the
\* currentCall that results from an event of the given type (call is the
\* currentCall of the handler's closure, time is `new Date()`)
handleTelephonyEvent(call, type, time) ==
    IF call = NoCall THEN call
    ELSE IF type = "call_started" THEN [call EXCEPT !.status = "connected"]
    ELSE IF type = "call_ended" THEN [call EXCEPT !.status = "ended", !.endTime = time]
    ELSE IF type = "error" THEN [call EXCEPT !.status = "failed", !.endTime = time]
    ELSE call

\* ChatHistory renders the call controls only when a session and an agent exist
CallUiShown == currentSession # NoSession /\ selectedAgent # NoAgent

RemoveAt(s, i) == SubSeq(s, 1, i - 1) \o SubSeq(s, i + 1, Len(s))

\* handleStartCall: const newCall = {id: `call-${Date.now()}`, agentId,
\* status: 'connecting', startTime: new Date(), callerInfo: {phone}}
newCall(agentId, time) ==
    [id |-> <<"call", time>>, agentId |-> agentId, status |-> "connecting",
     startTime |-> time, endTime |-> -1, callerInfo |-> [phone |-> US10]]

\* the Room held by the TelephonyService, by its state
heldRoom == IF room = 0 THEN "null" ELSE rooms[room]

\* eventHandlers.push(handler)
push(hs, h) == Append(hs, h)

\* const index = eventHandlers.indexOf(handler); if (index > -1) splice(index, 1)
splice(hs, h) == IF IndexOf(hs, h) > 0 THEN RemoveAt(hs, IndexOf(hs, h)) ELSE hs

\* ChatHistory's effect with the dependency currentCall: when a state update
\* has stored another currentCall, the clean-up removes the handleTelephonyEvent
\* of the last render from the service and the effect registers the new one
effect(hs, prevCall, nextCall) ==
    IF prevCall = NoCall /\ nextCall = NoCall THEN hs
    ELSE push(splice(hs, "handleTelephonyEvent"), "handleTelephonyEvent")

\* responseData.roomName of the 2xx answer to an invocation's request
roomNameOf(invocation) == <<"outbound", invocation.agentId, now>>

\* loadLettaAgents: lettaApi.getAgents() resolves
LoadAgentsResolves(list) ==
    /\ loadPending
    /\ loadPending' = FALSE
    /\ agents' = formattedAgents(list)
    /\ UNCHANGED <<selectedAgent, currentSession, currentCall, pollTimers, pendingPolls,
                   deletePending, createPending, showPhoneInput, isConnecting, outbound,
                   rooms, room, endFlows, startCalls, endCalls, clock, handled,
                   eventHandlers, emitted, received, svcCall, svcCalls, svcPending,
                   context, files, isContextUpdating, contextUpdates>>
    /\ UNCHANGED <<serverVars, tokenVars, deleteVars>>

\* loadLettaAgents: lettaApi.getAgents() throws (logged only)
LoadAgentsFails ==
    /\ loadPending
    /\ loadPending' = FALSE
    /\ UNCHANGED <<agents, selectedAgent, currentSession, currentCall, pollTimers,
                   pendingPolls, deletePending, createPending, showPhoneInput,
                   isConnecting, outbound, rooms, room, endFlows, startCalls, endCalls,
                   clock, handled, eventHandlers, emitted, received, svcCall, svcCalls,
                   svcPending, context, files, isContextUpdating, contextUpdates>>
    /\ UNCHANGED <<serverVars, tokenVars, deleteVars>>

\* handleAgentSelect(agents[i]); the getMessages request it then awaits only
\* changes the message list of the session
HandleAgentSelect(i) ==
    /\ i \in DOMAIN agents
    /\ selectedAgent' = agents[i]
    /\ currentSession' = [agentId |-> agents[i].id]
    /\ pollTimers' = pollEffect(pollTimers, selectedAgent.id, agents[i].id)
    /\ UNCHANGED <<agents, currentCall, pendingPolls, loadPending, deletePending,
                   createPending, showPhoneInput, isConnecting, outbound, rooms, room,
                   endFlows, startCalls, endCalls, clock, handled, eventHandlers, emitted,
                   received, svcCall, svcCalls, svcPending, context, files,
                   isContextUpdating, contextUpdates>>
    /\ UNCHANGED <<serverVars, tokenVars, deleteVars>>

\* an interval fires: pollMessages requests lettaApi.getMessages(a), a being
\* the id held by the closure the interval was created with
PollTick(a) ==
    /\ pollTimers[a] > 0
    /\ pendingPolls[a] < MaxInFlight
    /\ pendingPolls' = [pendingPolls EXCEPT ![a] = @ + 1]
    /\ UNCHANGED <<agents, selectedAgent, currentSession, currentCall, pollTimers,
                   loadPending, deletePending, createPending, showPhoneInput, isConnecting,
                   outbound, rooms, room, endFlows, startCalls, endCalls, clock, handled,
                   eventHandlers, emitted, received, svcCall, svcCalls, svcPending,
                   context, files, isContextUpdating, contextUpdates>>
    /\ UNCHANGED <<serverVars, tokenVars, deleteVars>>

\* pollMessages: getMessages resolves or throws; only the message list changes
PollResponds(a) ==
    /\ pendingPolls[a] > 0
    /\ pendingPolls' = [pendingPolls EXCEPT ![a] = @ - 1]
    /\ UNCHANGED <<agents, selectedAgent, currentSession, currentCall, pollTimers,
                   loadPending, deletePending, createPending, showPhoneInput, isConnecting,
                   outbound, rooms, room, endFlows, startCalls, endCalls, clock, handled,
                   eventHandlers, emitted, received, svcCall, svcCalls, svcPending,
                   context, files, isContextUpdating, contextUpdates>>
    /\ UNCHANGED <<serverVars, tokenVars, deleteVars>>

\* handleCreateAgent up to `await lettaApi.createAgent`
HandleCreateAgent ==
    /\ ~createPending
    /\ createPending' = TRUE
    /\ UNCHANGED <<agents, selectedAgent, currentSession, currentCall, pollTimers,
                   pendingPolls, loadPending, deletePending, showPhoneInput, isConnecting,
                   outbound, rooms, room, endFlows, startCalls, endCalls, clock, handled,
                   eventHandlers, emitted, received, svcCall, svcCalls, svcPending,
                   context, files, isContextUpdating, contextUpdates>>
    /\ UNCHANGED <<serverVars, tokenVars, deleteVars>>

\* handleCreateAgent: createAgent resolves with the new agent, which is
\* appended whatever appState.agents holds
CreateAgentResolves(id) ==
    /\ createPending
    /\ Len(agents) < MaxAgents
    /\ createPending' = FALSE
    /\ agents' = Append(agents, [id |-> id, status |-> "online"])
    /\ selectedAgent' = [id |-> id, status |-> "online"]
    /\ currentSession' = NoSession
    /\ pollTimers' = pollEffect(pollTimers, selectedAgent.id, id)
    /\ UNCHANGED <<currentCall, pendingPolls, loadPending, deletePending, showPhoneInput,
                   isConnecting, outbound, rooms, room, endFlows, startCalls, endCalls,
                   clock, handled, eventHandlers, emitted, received, svcCall, svcCalls,
                   svcPending, context, files, isContextUpdating, contextUpdates>>
    /\ UNCHANGED <<serverVars, tokenVars, deleteVars>>

\* handleCreateAgent: createAgent throws (alert only)
CreateAgentFails ==
    /\ createPending
    /\ createPending' = FALSE
    /\ UNCHANGED <<agents, selectedAgent, currentSession, currentCall, pollTimers,
                   pendingPolls, loadPending, deletePending, showPhoneInput, isConnecting,
                   outbound, rooms, room, endFlows, startCalls, endCalls, clock, handled,
                   eventHandlers, emitted, received, svcCall, svcCalls, svcPending,
                   context, files, isContextUpdating, contextUpdates>>
    /\ UNCHANGED <<serverVars, tokenVars, deleteVars>>

\* handleDeleteAllAgents, confirmed, up to its first await; the Clear All button
\* is never disabled, so any number of these can be awaiting
HandleDeleteAllAgents ==
    /\ deletePending < MaxPendingDeletes
    /\ deletePending' = deletePending + 1
    /\ UNCHANGED <<agents, selectedAgent, currentSession, currentCall, pollTimers,
                   pendingPolls, loadPending, createPending, showPhoneInput, isConnecting,
                   outbound, rooms, room, endFlows, startCalls, endCalls, clock, handled,
                   eventHandlers, emitted, received, svcCall, svcCalls, svcPending,
                   context, files, isContextUpdating, contextUpdates>>
    /\ UNCHANGED <<serverVars, tokenVars, deleteVars>>

\* handleDeleteAllAgents: deleteAllAgents() resolved and getAgents() returned list
DeleteAllResolves(list) ==
    /\ deletePending > 0
    /\ deletePending' = deletePending - 1
    /\ agents' = formattedAgents(list)
    /\ selectedAgent' = NoAgent
    /\ currentSession' = NoSession
    /\ pollTimers' = pollEffect(pollTimers, selectedAgent.id, "")
    /\ UNCHANGED <<currentCall, pendingPolls, loadPending, createPending, showPhoneInput,
                   isConnecting, outbound, rooms, room, endFlows, startCalls, endCalls,
                   clock, handled, eventHandlers, emitted, received, svcCall, svcCalls,
                   svcPending, context, files, isContextUpdating, contextUpdates>>
    /\ UNCHANGED <<serverVars, tokenVars, deleteVars>>

\* handleDeleteAllAgents: deleteAllAgents() or getAgents() throws (alert only)
DeleteAllFails ==
    /\ deletePending > 0
    /\ deletePending' = deletePending - 1
    /\ UNCHANGED <<agents, selectedAgent, currentSession, currentCall, pollTimers,
                   pendingPolls, loadPending, createPending, showPhoneInput, isConnecting,
                   outbound, rooms, room, endFlows, startCalls, endCalls, clock, handled,
                   eventHandlers, emitted, received, svcCall, svcCalls, svcPending,
                   context, files, isContextUpdating, contextUpdates>>
    /\ UNCHANGED <<serverVars, tokenVars, deleteVars>>

\* the 'Make Call' button: setShowPhoneInput(true)
ShowPhoneInput ==
    /\ CallUiShown
    /\ currentCall = NoCall
    /\ ~showPhoneInput
    /\ selectedAgent.status \notin {"offline", "busy"}
    /\ showPhoneInput' = TRUE
    /\ UNCHANGED <<agents, selectedAgent, currentSession, currentCall, pollTimers,
                   pendingPolls, loadPending, deletePending, createPending, isConnecting,
                   outbound, rooms, room, endFlows, startCalls, endCalls, clock, handled,
                   eventHandlers, emitted, received, svcCall, svcCalls, svcPending,
                   context, files, isContextUpdating, contextUpdates>>
    /\ UNCHANGED <<serverVars, tokenVars, deleteVars>>

\* the 'Cancel' button: setShowPhoneInput(false)
CancelPhoneInput ==
    /\ CallUiShown
    /\ currentCall = NoCall
    /\ showPhoneInput
    /\ showPhoneInput' = FALSE
    /\ UNCHANGED <<agents, selectedAgent, currentSession, currentCall, pollTimers,
                   pendingPolls, loadPending, deletePending, createPending, isConnecting,
                   outbound, rooms, room, endFlows, startCalls, endCalls, clock, handled,
                   eventHandlers, emitted, received, svcCall, svcCalls, svcPending,
                   context, files, isContextUpdating, contextUpdates>>
    /\ UNCHANGED <<serverVars, tokenVars, deleteVars>>

\* ChatHistory.handleStartOutboundCall, with a valid number, up to its first
\* await; the closure keeps the agent and the onStartCall of this render, and
\* that handleStartCall keeps this render's appState.agents, in which it will
\* look the agent up (agentFound).  Every attempt that gets as far as
\* startOutboundCall registers one more logging handler, which bounds the attempts.
StartOutboundCallClick ==
    /\ CallUiShown
    /\ currentCall = NoCall
    /\ showPhoneInput
    /\ ~isConnecting
    /\ Len(startCalls) < MaxPendingCalls
    /\ clock < MaxCalls
    /\ Count(eventHandlers, "log") < MaxHandlers
    /\ isConnecting' = TRUE
    /\ outbound' = [stage |-> "preparing", agentId |-> selectedAgent.id,
                    agentFound |-> found(agents, selectedAgent.id), rm |-> 0]
    /\ UNCHANGED <<agents, selectedAgent, currentSession, currentCall, pollTimers,
                   pendingPolls, loadPending, deletePending, createPending, showPhoneInput,
                   rooms, room, endFlows, startCalls, endCalls, clock, handled,
                   eventHandlers, emitted, received, svcCall, svcCalls, svcPending,
                   context, files, isContextUpdating, contextUpdates>>
    /\ UNCHANGED <<serverVars, tokenVars, deleteVars>>

\* handleStartOutboundCall: getUserMedia, the LiveKit URL test and the token
\* request are over; if all succeeded it registers a logging handler with
\* telephonyService.onEvent, and telephonyService.startOutboundCall assigns
\* this.room = new Room(...), whatever this.room held, and awaits room.connect
OutboundPrepared(ok) ==
    /\ outbound.stage = "preparing"
    /\ IF ok
       THEN /\ eventHandlers' = push(eventHandlers, "log")
            /\ rooms' = Append(rooms, "connecting")
            /\ room' = Len(rooms) + 1
            /\ outbound' = [outbound EXCEPT !.stage = "connecting", !.rm = Len(rooms) + 1]
            /\ UNCHANGED isConnecting
       ELSE /\ outbound' = NoFlow
            /\ isConnecting' = FALSE
            /\ UNCHANGED <<eventHandlers, rooms, room>>
    /\ UNCHANGED <<agents, selectedAgent, currentSession, currentCall, pollTimers,
                   pendingPolls, loadPending, deletePending, createPending, showPhoneInput,
                   endFlows, startCalls, endCalls, clock, handled, emitted, received,
                   svcCall, svcCalls, svcPending, context, files, isContextUpdating,
                   contextUpdates>>
    /\ UNCHANGED <<serverVars, tokenVars, deleteVars>>

\* startOutboundCall after `await this.room.connect(...)`.  'ok': the Room is
\* connected and this.room.localParticipant.setMicrophoneEnabled(true) is
\* awaited, unless this.room is null by now (TypeError).  Otherwise the catch
\* block emits 'error' and rethrows, handleStartOutboundCall alerts and gives up;
\* this.room is left as it is.
OutboundConnects(result) ==
    /\ outbound.stage = "connecting"
    /\ rooms' = [rooms EXCEPT ![outbound.rm] =
                    IF @ # "connecting" THEN @
                    ELSE IF result = "ok" THEN "connected" ELSE "failed"]
    /\ IF result = "ok" /\ room # 0
       THEN /\ outbound' = [outbound EXCEPT !.stage = "microphone"]
            /\ UNCHANGED <<isConnecting, currentCall>>
       ELSE /\ outbound' = NoFlow
            /\ isConnecting' = FALSE
            /\ currentCall' = handleTelephonyEvent(currentCall, "error", clock)
    /\ eventHandlers' = effect(eventHandlers, currentCall, currentCall')
    /\ UNCHANGED <<agents, selectedAgent, currentSession, pollTimers, pendingPolls,
                   loadPending, deletePending, createPending, showPhoneInput, room,
                   endFlows, startCalls, endCalls, clock, handled, emitted, received,
                   svcCall, svcCalls, svcPending, context, files, isContextUpdating,
                   contextUpdates>>
    /\ UNCHANGED <<serverVars, tokenVars, deleteVars>>

\* startOutboundCall after `await ...setMicrophoneEnabled(true)`.  'ok' with
\* this.room still set: 'call_started' is emitted, startOutboundCall resolves
\* and handleStartOutboundCall calls onStartCall(agent.id, number), i.e.
\* handleStartCall up to its fetch.  Otherwise ('micFails', or this.room null by
\* now) 'error' is emitted and rethrown; this.room is left as it is.
OutboundMicrophone(result) ==
    /\ outbound.stage = "microphone"
    /\ outbound' = NoFlow
    /\ isConnecting' = FALSE
    /\ IF result = "ok" /\ room # 0
       THEN /\ showPhoneInput' = FALSE
            /\ IF outbound.agentFound
               THEN /\ clock' = clock + 1
                    /\ currentCall' = newCall(outbound.agentId, clock + 1)
                    /\ agents' = withStatus(agents, outbound.agentId, "busy")
                    /\ startCalls' = Append(startCalls,
                                            [agentId |-> outbound.agentId,
                                             newCall |-> newCall(outbound.agentId, clock + 1)])
               ELSE /\ currentCall' = handleTelephonyEvent(currentCall, "call_started", clock)
                    /\ UNCHANGED <<agents, startCalls, clock>>
       ELSE /\ currentCall' = handleTelephonyEvent(currentCall, "error", clock)
            /\ UNCHANGED <<showPhoneInput, agents, startCalls, clock>>
    /\ eventHandlers' = effect(eventHandlers, currentCall, currentCall')
    /\ UNCHANGED <<selectedAgent, currentSession, pollTimers, pendingPolls, loadPending,
                   deletePending, createPending, rooms, room, endFlows, endCalls, handled,
                   emitted, received, svcCall, svcCalls, svcPending, context, files,
                   isContextUpdating, contextUpdates>>
    /\ UNCHANGED <<serverVars, tokenVars, deleteVars>>

\* MakeCallResponds whose failure branches leave the agents as they are
MakeCallResponds_KeepBusy(i, outcome) ==
    /\ i \in DOMAIN startCalls
    /\ startCalls' = RemoveAt(startCalls, i)
    /\ handled' = [agentId |-> startCalls[i].agentId, newCall |-> startCalls[i].newCall,
                   response |-> outcome]
    /\ IF outcome = "ok"
       THEN /\ currentCall' = IF currentCall # NoCall
                              THEN [currentCall EXCEPT !.id = roomNameOf(startCalls[i]),
                                                       !.status = "connected"]
                              ELSE NoCall
            /\ UNCHANGED agents
       ELSE /\ currentCall' = NoCall
            /\ agents' = agents
    /\ eventHandlers' = effect(eventHandlers, currentCall, currentCall')
    /\ UNCHANGED <<selectedAgent, currentSession, pollTimers, pendingPolls, loadPending,
                   deletePending, createPending, showPhoneInput, isConnecting, outbound,
                   rooms, room, endFlows, endCalls, clock, emitted, received, svcCall,
                   svcCalls, svcPending, context, files, isContextUpdating, contextUpdates>>
    /\ UNCHANGED <<serverVars, tokenVars, deleteVars>>

\* handleStartCall after `await fetch(.../api/make-call)` and response.json().
\* 'ok' is a 2xx answer (its roomName is that of the request); 'busy409' and
\* 'demo503' are the two handled errors; 'error' is any other non-OK answer, a
\* network error or a body that response.json() cannot parse (thrown and caught)
MakeCallResponds(i, outcome) ==
    /\ i \in DOMAIN startCalls
    /\ startCalls' = RemoveAt(startCalls, i)
    /\ handled' = [agentId |-> startCalls[i].agentId, newCall |-> startCalls[i].newCall,
                   response |-> outcome]
    /\ IF outcome = "ok"
       THEN /\ currentCall' = IF currentCall # NoCall
                              THEN [currentCall EXCEPT !.id = roomNameOf(startCalls[i]),
                                                       !.status = "connected"]
                              ELSE NoCall
            /\ UNCHANGED agents
       ELSE /\ currentCall' = NoCall
            /\ agents' = withStatus(agents, startCalls[i].agentId, "online")
    /\ eventHandlers' = effect(eventHandlers, currentCall, currentCall')
    /\ UNCHANGED <<selectedAgent, currentSession, pollTimers, pendingPolls, loadPending,
                   deletePending, createPending, showPhoneInput, isConnecting, outbound,
                   rooms, room, endFlows, endCalls, clock, emitted, received, svcCall,
                   svcCalls, svcPending, context, files, isContextUpdating, contextUpdates>>
    /\ UNCHANGED <<serverVars, tokenVars, deleteVars>>

\* a connected Room emits 'disconnected' (remote hang-up, network), be it the
\* Room held or one that startOutboundCall has replaced, whose listeners are
\* still attached: 'call_ended' is emitted; this.room stays as it is
RoomDisconnected(i) ==
    /\ i \in DOMAIN rooms
    /\ rooms[i] = "connected"
    /\ rooms' = [rooms EXCEPT ![i] = "disconnected"]
    /\ currentCall' = handleTelephonyEvent(currentCall, "call_ended", clock)
    /\ eventHandlers' = effect(eventHandlers, currentCall, currentCall')
    /\ UNCHANGED <<agents, selectedAgent, currentSession, pollTimers, pendingPolls,
                   loadPending, deletePending, createPending, showPhoneInput, isConnecting,
                   outbound, room, endFlows, startCalls, endCalls, clock, handled, emitted,
                   received, svcCall, svcCalls, svcPending, context, files,
                   isContextUpdating, contextUpdates>>
    /\ UNCHANGED <<serverVars, tokenVars, deleteVars>>

\* ChatHistory.handleEndCall up to the await in telephonyService.endCall(): if
\* the service holds a room, room.disconnect() is called, which makes a
\* connected Room emit 'disconnected' ('call_ended').  onEndCall of this render
\* is App.handleEndCall with this render's appState.currentCall, whose agentId
\* it will use.  The End Call button is never disabled: it can be clicked again
\* while earlier clicks are at their awaits.
EndCallClick ==
    /\ CallUiShown
    /\ currentCall # NoCall
    /\ Len(endFlows) + Len(endCalls) < MaxPendingEnds
    /\ endFlows' = Append(endFlows, [agentId |-> currentCall.agentId, hadRoom |-> room # 0])
    /\ IF room # 0 /\ heldRoom = "connected"
       THEN /\ rooms' = [rooms EXCEPT ![room] = "disconnected"]
            /\ currentCall' = handleTelephonyEvent(currentCall, "call_ended", clock)
       ELSE UNCHANGED <<rooms, currentCall>>
    /\ eventHandlers' = effect(eventHandlers, currentCall, currentCall')
    /\ UNCHANGED <<agents, selectedAgent, currentSession, pollTimers, pendingPolls,
                   loadPending, deletePending, createPending, showPhoneInput, isConnecting,
                   outbound, room, startCalls, endCalls, clock, handled, emitted, received,
                   svcCall, svcCalls, svcPending, context, files, isContextUpdating,
                   contextUpdates>>
    /\ UNCHANGED <<serverVars, tokenVars, deleteVars>>

\* telephonyService.endCall() of the k-th waiting handleEndCall is over: if it
\* had found a room, this.room = null, whatever it holds by now, and
\* 'call_ended' is emitted; then onEndCall() runs App.handleEndCall up to
\* `await fetch(.../api/end-call)`
EndCallProceeds(k) ==
    /\ k \in DOMAIN endFlows
    /\ endFlows' = RemoveAt(endFlows, k)
    /\ IF endFlows[k].hadRoom
       THEN /\ room' = 0
            /\ currentCall' = handleTelephonyEvent(currentCall, "call_ended", clock)
       ELSE UNCHANGED <<room, currentCall>>
    /\ endCalls' = Append(endCalls, endFlows[k].agentId)
    /\ eventHandlers' = effect(eventHandlers, currentCall, currentCall')
    /\ UNCHANGED <<agents, selectedAgent, currentSession, pollTimers, pendingPolls,
                   loadPending, deletePending, createPending, showPhoneInput, isConnecting,
                   outbound, rooms, startCalls, clock, handled, emitted, received, svcCall,
                   svcCalls, svcPending, context, files, isContextUpdating, contextUpdates>>
    /\ UNCHANGED <<serverVars, tokenVars, deleteVars>>

\* handleEndCall after the fetch (resolved or failed): currentCall is cleared and
\* the ended call's agent set back to 'online'
EndCallResponds(i) ==
    /\ i \in DOMAIN endCalls
    /\ endCalls' = RemoveAt(endCalls, i)
    /\ currentCall' = NoCall
    /\ agents' = withStatus(agents, endCalls[i], "online")
    /\ eventHandlers' = effect(eventHandlers, currentCall, currentCall')
    /\ UNCHANGED <<selectedAgent, currentSession, pollTimers, pendingPolls, loadPending,
                   deletePending, createPending, showPhoneInput, isConnecting, outbound,
                   rooms, room, endFlows, startCalls, clock, handled, emitted, received,
                   svcCall, svcCalls, svcPending, context, files, isContextUpdating,
                   contextUpdates>>
    /\ UNCHANGED <<serverVars, tokenVars, deleteVars>>

MakeCallOutcomes == {"ok", "busy409", "demo503", "error"}

\* the handlers that take part in a call, the Letta server holding two agents
NextCall ==
    \/ LoadAgentsResolves(<<"a1", "a2">>)
    \/ LoadAgentsFails
    \/ \E i \in DOMAIN agents : HandleAgentSelect(i)
    \/ ShowPhoneInput
    \/ CancelPhoneInput
    \/ StartOutboundCallClick
    \/ \E ok \in BOOLEAN : OutboundPrepared(ok)
    \/ \E result \in {"ok", "connectFails"} : OutboundConnects(result)
    \/ \E result \in {"ok", "micFails"} : OutboundMicrophone(result)
    \/ \E i \in 1..MaxPendingCalls, outcome \in MakeCallOutcomes : MakeCallResponds(i, outcome)
    \/ \E i \in DOMAIN rooms : RoomDisconnected(i)
    \/ EndCallClick
    \/ \E k \in DOMAIN endFlows : EndCallProceeds(k)
    \/ \E i \in 1..MaxPendingEnds : EndCallResponds(i)

SpecCall == InitConfigured /\ [][NextCall]_vars

\* the handlers that touch the selection and the polling timers
NextPoll ==
    \/ \E list \in AgentLists : LoadAgentsResolves(list)
    \/ LoadAgentsFails
    \/ \E i \in DOMAIN agents : HandleAgentSelect(i)
    \/ \E a \in AppAgentIds : PollTick(a)
    \/ \E a \in AppAgentIds : PollResponds(a)
    \/ HandleCreateAgent
    \/ \E id \in AppAgentIds : CreateAgentResolves(id)
    \/ CreateAgentFails
    \/ HandleDeleteAllAgents
    \/ \E list \in AgentLists : DeleteAllResolves(list)
    \/ DeleteAllFails

SpecPoll == InitConfigured /\ [][NextPoll]_vars

\* ============================== ChatHistory's handler for telephony events
EventTypes == {"participant_connected", "participant_disconnected", "call_started",
               "call_ended", "error"}

\* the calls appState.currentCall can hold when an event arrives
CallInputs ==
    {NoCall} \cup
    {[id |-> id, agentId |-> a, status |-> st, startTime |-> 1, endTime |-> e,
      callerInfo |-> [phone |-> US10]] :
        id \in {<<"call", 1>>, <<"outbound", "a1", 0>>}, a \in AppAgentIds,
        st \in {"connecting", "connected", "ended", "failed"}, e \in {-1, 1}}

InitEvent ==
    /\ InitServer /\ LIVEKIT_API_KEY # "" /\ LIVEKIT_API_SECRET # ""
    /\ InitToken /\ InitDelete
    /\ \E call \in CallInputs, time \in 1..MaxCalls :
            InitBrowser(call, time, <<"handleTelephonyEvent">>)

\* the TelephonyService delivers an event to the handleTelephonyEvent that the
\* effect of the current render registered; what it passes to onCallStatusUpdate
\* becomes appState.currentCall (the two participant events pass nothing)
TelephonyEvent(type) ==
    /\ Len(emitted) < MaxEmits
    /\ emitted' = Append(emitted, <<0, type>>)
    /\ currentCall' = handleTelephonyEvent(currentCall, type, clock)
    /\ eventHandlers' = IF type \in {"call_started", "call_ended", "error"}
                        THEN effect(eventHandlers, currentCall, currentCall')
                        ELSE eventHandlers
    /\ UNCHANGED <<agents, selectedAgent, currentSession, pollTimers, pendingPolls,
                   loadPending, deletePending, createPending, showPhoneInput, isConnecting,
                   outbound, rooms, room, endFlows, startCalls, endCalls, clock, handled,
                   received, svcCall, svcCalls, svcPending, context, files,
                   isContextUpdating, contextUpdates>>
    /\ UNCHANGED <<serverVars, tokenVars, deleteVars>>

NextEvent == \E type \in EventTypes : TelephonyEvent(type)

SpecEvent == InitEvent /\ [][NextEvent]_vars

\* ===================================================== TelephonyService
\* The class by itself: its public methods called in any order, also while
\* earlier calls are at an await, and the events of the Rooms it has made.
\* The handlers registered with the service are named by what they do when
\* called: "log" returns (ChatHistory's handlers), "thrower" throws, "once"
\* calls removeEvent on itself, "adder" calls onEvent with the handler "late".
\* Two entries of one name are two functions that do the same.
Handlers == {"log", "thrower", "once", "adder"}

\* what running handler h does to this.eventHandlers
called(hs, h) ==
    IF h = "once" THEN splice(hs, h)
    ELSE IF h = "adder" THEN push(hs, "late")
    ELSE hs

\* this.eventHandlers.forEach(handler => { try { handler(event) } catch {} }):
\* forEach visits the indices 1..len0, len0 being the length when it starts,
\* and skips an index the array no longer has; acc collects the deliveries
RECURSIVE forEach(_, _, _, _, _)
forEach(hs, k, len0, type, acc) ==
    IF k > len0 THEN [handlers |-> hs, delivered |-> acc]
    ELSE IF k > Len(hs) THEN forEach(hs, k + 1, len0, type, acc)
    ELSE forEach(called(hs, hs[k]), k + 1, len0, type, Append(acc, <<hs[k], type>>))

\* private emit(event); rm is the Room the event is about
emit(rm, type) ==
    LET e == forEach(eventHandlers, 1, Len(eventHandlers), type, << >>)
    IN  /\ eventHandlers' = e.handlers
        /\ received' = e.delivered
        /\ emitted' = Append(emitted, <<rm, type>>)

\* a method call that is at an await: its number among the calls made, the
\* method, the await, the Room it made or found, and whether its config has a
\* phoneNumber
Invocation(id, op, pc, rm, phone) ==
    [id |-> id, op |-> op, pc |-> pc, rm |-> rm, phone |-> phone]

\* the promise of invocation inv settles: svcCall keeps the result of the
\* method called last
settled(inv, result) ==
    svcCall' = IF inv.id = svcCalls THEN [svcCall EXCEPT !.result = result] ELSE svcCall

ParticipantTypes == {"participant_connected", "participant_disconnected"}

\* a fresh TelephonyService
InitService ==
    /\ InitServer /\ LIVEKIT_API_KEY # "" /\ LIVEKIT_API_SECRET # ""
    /\ InitToken /\ InitDelete
    /\ InitBrowser(NoCall, 0, << >>)

\* onEvent(handler): the handler is pushed, registered already or not
onEvent(h) ==
    /\ svcCalls < MaxOps
    /\ Len(eventHandlers) < MaxHandlers
    /\ svcCalls' = svcCalls + 1
    /\ svcCall' = [op |-> "onEvent", hadRoom |-> room # 0, rm |-> room, result |-> "returned"]
    /\ eventHandlers' = push(eventHandlers, h)
    /\ UNCHANGED <<agents, selectedAgent, currentSession, currentCall, pollTimers,
                   pendingPolls, loadPending, deletePending, createPending, showPhoneInput,
                   isConnecting, outbound, rooms, room, endFlows, startCalls, endCalls,
                   clock, handled, emitted, received, svcPending, context, files,
                   isContextUpdating, contextUpdates>>
    /\ UNCHANGED <<serverVars, tokenVars, deleteVars>>

\* removeEvent(handler) of a registered handler
removeEvent(h) ==
    /\ svcCalls < MaxOps
    /\ IndexOf(eventHandlers, h) > 0
    /\ svcCalls' = svcCalls + 1
    /\ svcCall' = [op |-> "removeEvent", hadRoom |-> room # 0, rm |-> room, result |-> "returned"]
    /\ eventHandlers' = splice(eventHandlers, h)
    /\ UNCHANGED <<agents, selectedAgent, currentSession, currentCall, pollTimers,
                   pendingPolls, loadPending, deletePending, createPending, showPhoneInput,
                   isConnecting, outbound, rooms, room, endFlows, startCalls, endCalls,
                   clock, handled, emitted, received, svcPending, context, files,
                   isContextUpdating, contextUpdates>>
    /\ UNCHANGED <<serverVars, tokenVars, deleteVars>>

\* startOutboundCall(config) up to `await this.room.connect(...)`: this.room is
\* a new Room with the listeners of setupEventListeners; the Room that this.room
\* held is neither disconnected nor rid of its listeners.  phone: whether
\* config.phoneNumber is set
startOutboundCall(phone) ==
    /\ svcCalls < MaxOps
    /\ svcCalls' = svcCalls + 1
    /\ rooms' = Append(rooms, "connecting")
    /\ room' = Len(rooms) + 1
    /\ svcCall' = [op |-> "startOutboundCall", hadRoom |-> room # 0, rm |-> Len(rooms) + 1,
                   result |-> "pending"]
    /\ svcPending' = Append(svcPending,
                            Invocation(svcCalls + 1, "startOutboundCall", "connect", Len(rooms) + 1, phone))
    /\ UNCHANGED <<agents, selectedAgent, currentSession, currentCall, pollTimers,
                   pendingPolls, loadPending, deletePending, createPending, showPhoneInput,
                   isConnecting, outbound, endFlows, startCalls, endCalls, clock, handled,
                   eventHandlers, emitted, received, context, files, isContextUpdating,
                   contextUpdates>>
    /\ UNCHANGED <<serverVars, tokenVars, deleteVars>>

\* handleIncomingCall(config) up to `await this.room.connect(...)`
handleIncomingCall ==
    /\ svcCalls < MaxOps
    /\ svcCalls' = svcCalls + 1
    /\ rooms' = Append(rooms, "connecting")
    /\ room' = Len(rooms) + 1
    /\ svcCall' = [op |-> "handleIncomingCall", hadRoom |-> room # 0, rm |-> Len(rooms) + 1,
                   result |-> "pending"]
    /\ svcPending' = Append(svcPending,
                            Invocation(svcCalls + 1, "handleIncomingCall", "connect", Len(rooms) + 1, FALSE))
    /\ UNCHANGED <<agents, selectedAgent, currentSession, currentCall, pollTimers,
                   pendingPolls, loadPending, deletePending, createPending, showPhoneInput,
                   isConnecting, outbound, endFlows, startCalls, endCalls, clock, handled,
                   eventHandlers, emitted, received, context, files, isContextUpdating,
                   contextUpdates>>
    /\ UNCHANGED <<serverVars, tokenVars, deleteVars>>

\* room.connect(...) of a pending startOutboundCall / handleIncomingCall settles;
\* it can only reject when the Room was disconnected meanwhile.
\* startOutboundCall goes on to `await this.room.localParticipant
\* .setMicrophoneEnabled(true)`, which throws a TypeError when this.room is null
\* by now; handleIncomingCall emits 'call_started' and resolves.  A rejection or
\* throw reaches the catch block: 'error' is emitted and the call rejects.
roomConnectSettles(k, result) ==
    /\ k \in DOMAIN svcPending
    /\ svcPending[k].pc = "connect"
    /\ LET inv == svcPending[k]
           connected == result = "ok" /\ rooms[inv.rm] = "connecting"
       IN  /\ rooms' = [rooms EXCEPT ![inv.rm] =
                           IF @ # "connecting" THEN @
                           ELSE IF result = "ok" THEN "connected" ELSE "failed"]
           /\ IF connected /\ inv.op = "startOutboundCall" /\ room # 0
              THEN /\ svcPending' = [svcPending EXCEPT ![k].pc = "microphone"]
                   /\ UNCHANGED <<svcCall, eventHandlers, received, emitted>>
              ELSE /\ svcPending' = RemoveAt(svcPending, k)
                   /\ IF connected /\ inv.op = "handleIncomingCall"
                      THEN /\ emit(inv.rm, "call_started")
                           /\ settled(inv, "resolved")
                      ELSE /\ emit(inv.rm, "error")
                           /\ settled(inv, "rejected")
    /\ UNCHANGED <<agents, selectedAgent, currentSession, currentCall, pollTimers,
                   pendingPolls, loadPending, deletePending, createPending, showPhoneInput,
                   isConnecting, outbound, room, endFlows, startCalls, endCalls, clock,
                   handled, svcCalls, context, files, isContextUpdating, contextUpdates>>
    /\ UNCHANGED <<serverVars, tokenVars, deleteVars>>

\* setMicrophoneEnabled(true) of a pending startOutboundCall settles.  'ok':
\* the log line reads this.room.localParticipant (TypeError when this.room is
\* null by now), then 'call_started' is emitted if config.phoneNumber is set, and
\* the call resolves.  Otherwise the catch block emits 'error' and the call
\* rejects.
microphoneSettles(k, result) ==
    /\ k \in DOMAIN svcPending
    /\ svcPending[k].pc = "microphone"
    /\ svcPending' = RemoveAt(svcPending, k)
    /\ LET inv == svcPending[k]
       IN  IF result = "ok" /\ room # 0
           THEN /\ settled(inv, "resolved")
                /\ IF inv.phone
                   THEN emit(inv.rm, "call_started")
                   ELSE UNCHANGED <<eventHandlers, received, emitted>>
           ELSE /\ settled(inv, "rejected")
                /\ emit(inv.rm, "error")
    /\ UNCHANGED <<agents, selectedAgent, currentSession, currentCall, pollTimers,
                   pendingPolls, loadPending, deletePending, createPending, showPhoneInput,
                   isConnecting, outbound, rooms, room, endFlows, startCalls, endCalls,
                   clock, handled, svcCalls, context, files, isContextUpdating,
                   contextUpdates>>
    /\ UNCHANGED <<serverVars, tokenVars, deleteVars>>

\* endCall up to `await this.room.disconnect()`, or all of it when the service
\* holds no room.  Room.disconnect() makes a connected Room emit 'disconnected';
\* it aborts the connection attempt of a connecting Room, which then may emit
\* 'disconnected' or not (fires); on any other Room it does nothing.
endCall(fires) ==
    /\ svcCalls < MaxOps
    /\ svcCalls' = svcCalls + 1
    /\ heldRoom # "connecting" => (fires <=> heldRoom = "connected")
    /\ IF room = 0
       THEN /\ svcCall' = [op |-> "endCall", hadRoom |-> FALSE, rm |-> 0, result |-> "resolved"]
            /\ UNCHANGED <<svcPending, rooms, eventHandlers, received, emitted>>
       ELSE /\ svcCall' = [op |-> "endCall", hadRoom |-> TRUE, rm |-> room, result |-> "pending"]
            /\ svcPending' = Append(svcPending,
                                    Invocation(svcCalls + 1, "endCall", "disconnect", room, FALSE))
            /\ rooms' = [rooms EXCEPT ![room] =
                            IF @ \in {"connected", "connecting"} THEN "disconnected" ELSE @]
            /\ IF fires
               THEN emit(room, "call_ended")
               ELSE UNCHANGED <<eventHandlers, received, emitted>>
    /\ UNCHANGED <<agents, selectedAgent, currentSession, currentCall, pollTimers,
                   pendingPolls, loadPending, deletePending, createPending, showPhoneInput,
                   isConnecting, outbound, room, endFlows, startCalls, endCalls, clock,
                   handled, context, files, isContextUpdating, contextUpdates>>
    /\ UNCHANGED <<serverVars, tokenVars, deleteVars>>

\* endCall after the await: this.room = null, whatever it holds by now;
\* this.emit({type: 'call_ended'})
endCallSettles(k) ==
    /\ k \in DOMAIN svcPending
    /\ svcPending[k].pc = "disconnect"
    /\ svcPending' = RemoveAt(svcPending, k)
    /\ room' = 0
    /\ emit(svcPending[k].rm, "call_ended")
    /\ settled(svcPending[k], "resolved")
    /\ UNCHANGED <<agents, selectedAgent, currentSession, currentCall, pollTimers,
                   pendingPolls, loadPending, deletePending, createPending, showPhoneInput,
                   isConnecting, outbound, rooms, endFlows, startCalls, endCalls, clock,
                   handled, svcCalls, context, files, isContextUpdating, contextUpdates>>
    /\ UNCHANGED <<serverVars, tokenVars, deleteVars>>

\* setMicrophoneEnabled(enabled) up to `await this.room.localParticipant
\* .setMicrophoneEnabled(enabled)`, or all of it when the service holds no room:
\* it throws 'Not connected to room'
setMicrophoneEnabled ==
    /\ svcCalls < MaxOps
    /\ svcCalls' = svcCalls + 1
    /\ IF room = 0
       THEN /\ svcCall' = [op |-> "setMicrophoneEnabled", hadRoom |-> FALSE, rm |-> 0,
                           result |-> "Not connected to room"]
            /\ UNCHANGED svcPending
       ELSE /\ svcCall' = [op |-> "setMicrophoneEnabled", hadRoom |-> TRUE, rm |-> room,
                           result |-> "pending"]
            /\ svcPending' = Append(svcPending,
                                    Invocation(svcCalls + 1, "setMicrophoneEnabled",
                                               "setMicrophone", room, FALSE))
    /\ UNCHANGED <<agents, selectedAgent, currentSession, currentCall, pollTimers,
                   pendingPolls, loadPending, deletePending, createPending, showPhoneInput,
                   isConnecting, outbound, rooms, room, endFlows, startCalls, endCalls,
                   clock, handled, eventHandlers, emitted, received, context, files,
                   isContextUpdating, contextUpdates>>
    /\ UNCHANGED <<serverVars, tokenVars, deleteVars>>

\* setMicrophoneEnabled after the await: the call resolves or rejects as the
\* promise of the Room's local participant does; nothing else is touched
setMicrophoneEnabledSettles(k, result) ==
    /\ k \in DOMAIN svcPending
    /\ svcPending[k].pc = "setMicrophone"
    /\ svcPending' = RemoveAt(svcPending, k)
    /\ settled(svcPending[k], result)
    /\ UNCHANGED <<agents, selectedAgent, currentSession, currentCall, pollTimers,
                   pendingPolls, loadPending, deletePending, createPending, showPhoneInput,
                   isConnecting, outbound, rooms, room, endFlows, startCalls, endCalls,
                   clock, handled, eventHandlers, emitted, received, svcCalls, context,
                   files, isContextUpdating, contextUpdates>>
    /\ UNCHANGED <<serverVars, tokenVars, deleteVars>>

\* a connected Room is disconnected from outside (remote hang-up, network), be
\* it the Room held or one that was replaced: its 'disconnected' listener emits
\* 'call_ended'; this.room stays as it is
roomEmitsDisconnected(i) ==
    /\ i \in DOMAIN rooms
    /\ rooms[i] = "connected"
    /\ rooms' = [rooms EXCEPT ![i] = "disconnected"]
    /\ emit(i, "call_ended")
    /\ UNCHANGED <<agents, selectedAgent, currentSession, currentCall, pollTimers,
                   pendingPolls, loadPending, deletePending, createPending, showPhoneInput,
                   isConnecting, outbound, room, endFlows, startCalls, endCalls, clock,
                   handled, svcCall, svcCalls, svcPending, context, files,
                   isContextUpdating, contextUpdates>>
    /\ UNCHANGED <<serverVars, tokenVars, deleteVars>>

\* RoomEvent.ParticipantConnected / ParticipantDisconnected of a connected Room
roomEmitsParticipant(i, type) ==
    /\ i \in DOMAIN rooms
    /\ rooms[i] = "connected"
    /\ Cardinality({n \in DOMAIN emitted : emitted[n][2] \in ParticipantTypes}) < MaxRoomEvents
    /\ emit(i, type)
    /\ UNCHANGED <<agents, selectedAgent, currentSession, currentCall, pollTimers,
                   pendingPolls, loadPending, deletePending, createPending, showPhoneInput,
                   isConnecting, outbound, rooms, room, endFlows, startCalls, endCalls,
                   clock, handled, svcCall, svcCalls, svcPending, context, files,
                   isContextUpdating, contextUpdates>>
    /\ UNCHANGED <<serverVars, tokenVars, deleteVars>>

NextService ==
    \/ \E h \in Handlers : onEvent(h)
    \/ \E h \in Handlers : removeEvent(h)
    \/ \E phone \in BOOLEAN : startOutboundCall(phone)
    \/ handleIncomingCall
    \/ \E k \in DOMAIN svcPending, result \in {"ok", "fails"} : roomConnectSettles(k, result)
    \/ \E k \in DOMAIN svcPending, result \in {"ok", "fails"} : microphoneSettles(k, result)
    \/ \E fires \in BOOLEAN : endCall(fires)
    \/ \E k \in DOMAIN svcPending : endCallSettles(k)
    \/ setMicrophoneEnabled
    \/ \E k \in DOMAIN svcPending, result \in {"resolved", "rejected"} :
            setMicrophoneEnabledSettles(k, result)
    \/ \E i \in DOMAIN rooms : roomEmitsDisconnected(i)
    \/ \E i \in DOMAIN rooms, type \in ParticipantTypes : roomEmitsParticipant(i, type)

SpecService == InitService /\ [][NextService]_vars

\* ======================================= StatusPanel: context and files
\* what the textarea can hold when 'Update' is clicked
ContextInputs == {"c1", "c2"}

FileNames == <<"f.txt", "g.txt">>

\* the FileLists a file input hands to onFileUpload: files 1..n of FileNames,
\* taken cyclically
FileLists ==
    {[i \in 1..n |-> FileNames[((i - 1) % Len(FileNames)) + 1]] : n \in 1..MaxFileList}

\* Array.from(fileList).map((file, index) => ({id: `new-${Date.now()}-${index}`,
\* name: file.name, ...})); index counts from 0
newFiles(fileList, time) ==
    [i \in DOMAIN fileList |-> [id |-> <<"new", time, i - 1>>, name |-> fileList[i]]]

\* [...prev.files, ...newFiles]
uploaded(prevFiles, added) == prevFiles \o added

\* prev.files.filter(file => file.id !== fileId)
deleted(prevFiles, fileId) == SelectSeq(prevFiles, LAMBDA file : file.id # fileId)

\* time passes in the browser: Date.now() returns a later value
DateAdvances ==
    /\ clock < MaxDate
    /\ clock' = clock + 1
    /\ UNCHANGED <<agents, selectedAgent, currentSession, currentCall, pollTimers,
                   pendingPolls, loadPending, deletePending, createPending, showPhoneInput,
                   isConnecting, outbound, rooms, room, endFlows, startCalls, endCalls,
                   handled, eventHandlers, emitted, received, svcCall, svcCalls,
                   svcPending, context, files, isContextUpdating, contextUpdates>>
    /\ UNCHANGED <<serverVars, tokenVars, deleteVars>>

\* StatusPanel.handleContextSave -> App.handleContextUpdate(newContext) up to its
\* await; the 'Update' button is disabled while isContextUpdating
HandleContextUpdate(newContext) ==
    /\ ~isContextUpdating
    /\ isContextUpdating' = TRUE
    /\ contextUpdates' = Append(contextUpdates, newContext)
    /\ UNCHANGED <<agents, selectedAgent, currentSession, currentCall, pollTimers,
                   pendingPolls, loadPending, deletePending, createPending, showPhoneInput,
                   isConnecting, outbound, rooms, room, endFlows, startCalls, endCalls,
                   clock, handled, eventHandlers, emitted, received, svcCall, svcCalls,
                   svcPending, context, files>>
    /\ UNCHANGED <<serverVars, tokenVars, deleteVars>>

\* HandleContextUpdateResumes that spreads the appState of its closure, which
\* useCallback(..., []) keeps from the first render, instead of prev
HandleContextUpdateResumes_Closure(i) ==
    /\ i \in DOMAIN contextUpdates
    /\ agents' = << >>
    /\ selectedAgent' = NoAgent
    /\ currentSession' = NoSession
    /\ currentCall' = NoCall
    /\ files' = mockFiles
    /\ pollTimers' = pollEffect(pollTimers, selectedAgent.id, "")
    /\ context' = contextUpdates[i]
    /\ isContextUpdating' = FALSE
    /\ contextUpdates' = RemoveAt(contextUpdates, i)
    /\ UNCHANGED <<pendingPolls, loadPending, deletePending, createPending, showPhoneInput,
                   isConnecting, outbound, rooms, room, endFlows, startCalls, endCalls,
                   clock, handled, eventHandlers, emitted, received, svcCall, svcCalls,
                   svcPending>>
    /\ UNCHANGED <<serverVars, tokenVars, deleteVars>>

\* handleContextUpdate after its one-second timer:
\* setAppState(prev => ({...prev, context: newContext, isContextUpdating: false}))
HandleContextUpdateResumes(i) ==
    /\ i \in DOMAIN contextUpdates
    /\ context' = contextUpdates[i]
    /\ isContextUpdating' = FALSE
    /\ contextUpdates' = RemoveAt(contextUpdates, i)
    /\ UNCHANGED <<agents, selectedAgent, currentSession, currentCall, pollTimers,
                   pendingPolls, loadPending, deletePending, createPending, showPhoneInput,
                   isConnecting, outbound, rooms, room, endFlows, startCalls, endCalls,
                   clock, handled, eventHandlers, emitted, received, svcCall, svcCalls,
                   svcPending, files>>
    /\ UNCHANGED <<serverVars, tokenVars, deleteVars>>

\* StatusPanel.handleFileUpload -> App.handleFileUpload(e.target.files)
HandleFileUpload(fileList) ==
    /\ Len(files) + Len(fileList) <= MaxFiles
    /\ files' = uploaded(files, newFiles(fileList, clock))
    /\ UNCHANGED <<agents, selectedAgent, currentSession, currentCall, pollTimers,
                   pendingPolls, loadPending, deletePending, createPending, showPhoneInput,
                   isConnecting, outbound, rooms, room, endFlows, startCalls, endCalls,
                   clock, handled, eventHandlers, emitted, received, svcCall, svcCalls,
                   svcPending, context, isContextUpdating, contextUpdates>>
    /\ UNCHANGED <<serverVars, tokenVars, deleteVars>>

\* the delete button of a listed file: App.handleFileDelete(file.id)
HandleFileDelete(fileId) ==
    /\ \E i \in DOMAIN files : files[i].id = fileId
    /\ files' = deleted(files, fileId)
    /\ UNCHANGED <<agents, selectedAgent, currentSession, currentCall, pollTimers,
                   pendingPolls, loadPending, deletePending, createPending, showPhoneInput,
                   isConnecting, outbound, rooms, room, endFlows, startCalls, endCalls,
                   clock, handled, eventHandlers, emitted, received, svcCall, svcCalls,
                   svcPending, context, isContextUpdating, contextUpdates>>
    /\ UNCHANGED <<serverVars, tokenVars, deleteVars>>

\* the handlers of the status panel, next to those that load and select agents
NextPanel ==
    \/ LoadAgentsResolves(<<"a1", "a2">>)
    \/ \E i \in DOMAIN agents : HandleAgentSelect(i)
    \/ DateAdvances
    \/ \E newContext \in ContextInputs : HandleContextUpdate(newContext)
    \/ \E i \in DOMAIN contextUpdates : HandleContextUpdateResumes(i)
    \/ \E fileList \in FileLists : HandleFileUpload(fileList)
    \/ \E i \in DOMAIN files : HandleFileDelete(files[i].id)

SpecPanel == InitConfigured /\ [][NextPanel]_vars

\* C7: an agent of appState.agents is 'busy' iff currentCall is non-null, is a
\* call of that agent, and has status 'connecting' or 'connected'.
C7_BusyIffInCall ==
    \A i \in DOMAIN agents :
        agents[i].status = "busy" <=>
            /\ currentCall # NoCall
            /\ currentCall.agentId = agents[i].id
            /\ currentCall.status \in {"connecting", "connected"}

ActiveTimers == {a \in AppAgentIds : pollTimers[a] > 0}

\* C8: at most one polling timer is active; one is active iff an agent is
\* selected; it polls for the selected agent's id, so every tick requests the
\* messages of the currently selected agent and none those of an agent
\* selected before.
C8_OneTimer ==
    /\ [](/\ \A a \in AppAgentIds : pollTimers[a] \in {0, 1}
          /\ Cardinality(ActiveTimers) <= 1
          /\ (ActiveTimers # {} <=> selectedAgent # NoAgent)
          /\ \A a \in ActiveTimers : a = selectedAgent.id)
    /\ [][\A a \in AppAgentIds :
             pendingPolls'[a] > pendingPolls[a] =>
                 (selectedAgent # NoAgent /\ a = selectedAgent.id /\ a = selectedAgent'.id)]_vars

\* a poll is in flight for the selected agent after the selection has changed
\* from another agent
C8_Witness ==
    /\ selectedAgent.id = "a2"
    /\ pollTimers["a2"] = 1
    /\ pendingPolls["a2"] > 0
    /\ pendingPolls["a1"] > 0

\* ============================================================ call claims
\* C13: when a call has been ended and a second call started while the first
\* call's /api/make-call request is still pending, handling the late response
\* to the first request (success or failure) leaves currentCall, which is the
\* second call, as it is (id, status, not reset to null) and leaves the status
\* of the second call's agent as it is.
C13_LateResponse ==
    [][\A i \in DOMAIN startCalls :
          (/\ startCalls' = RemoveAt(startCalls, i)
           /\ currentCall # NoCall
           /\ currentCall.startTime # startCalls[i].newCall.startTime)
          => /\ currentCall' = currentCall
             /\ \A k \in DOMAIN agents :
                    agents[k].id = currentCall.agentId => agents'[k] = agents[k]]_vars

\* C14: when handleStartCall ends in failure (409 number_busy, 503 demo mode,
\* any other non-OK answer, a network error or an unparsable body) the state it
\* leaves has currentCall = null and the called agent 'online'; when it succeeds
\* and currentCall is still the call it started, not ended or failed, the
\* state it leaves has that call 'connected' with the server's roomName as id.
C14_StartCallOutcome ==
    [][\A i \in DOMAIN startCalls :
          (startCalls' = RemoveAt(startCalls, i) /\ handled'.newCall = startCalls[i].newCall) =>
              IF handled'.response # "ok"
              THEN /\ currentCall' = NoCall
                   /\ \A k \in DOMAIN agents' :
                          agents'[k].id = startCalls[i].agentId => agents'[k].status = "online"
              ELSE (/\ currentCall # NoCall
                    /\ currentCall.startTime = startCalls[i].newCall.startTime
                    /\ currentCall.status \notin {"ended", "failed"})
                   => /\ currentCall'.status = "connected"
                      /\ currentCall'.id = roomNameOf(startCalls[i])
                      /\ currentCall'.startTime = currentCall.startTime]_vars

\* a failed request has been handled while its call was current: the call is
\* gone and its agent, which the call start had made 'busy', is 'online'
C14_Witness ==
    /\ handled.response \in {"busy409", "demo503", "error"}
    /\ currentCall = NoCall
    /\ startCalls = << >>
    /\ endCalls = << >>
    /\ heldRoom = "connected"
    /\ \E k \in DOMAIN agents : agents[k].id = handled.agentId /\ agents[k].status = "online"

\* C15: with a current call, 'call_started' sets status 'connected',
\* 'call_ended' sets status 'ended' and an endTime, 'error' sets status
\* 'failed' and an endTime, 'participant_connected' changes nothing; without a
\* current call no event changes the App state; in every case id, agentId,
\* startTime and callerInfo of the call are kept.
C15_EventMapping ==
    [][Len(emitted') = Len(emitted) + 1 =>
          LET type == emitted'[Len(emitted')][2]
          IN  /\ UNCHANGED <<agents, selectedAgent, currentSession>>
              /\ currentCall = NoCall => currentCall' = NoCall
              /\ currentCall # NoCall =>
                    /\ type = "call_started" =>
                          currentCall' = [currentCall EXCEPT !.status = "connected"]
                    /\ type = "call_ended" =>
                          /\ currentCall'.status = "ended"
                          /\ currentCall'.endTime = clock
                    /\ type = "error" =>
                          /\ currentCall'.status = "failed"
                          /\ currentCall'.endTime = clock
                    /\ type = "participant_connected" => currentCall' = currentCall
                    /\ currentCall'.id = currentCall.id
                    /\ currentCall'.agentId = currentCall.agentId
                    /\ currentCall'.startTime = currentCall.startTime
                    /\ currentCall'.callerInfo = currentCall.callerInfo]_vars

\* 'call_ended' has been delivered for a call that was connected
C15_Witness ==
    /\ Len(emitted) > 0
    /\ emitted[Len(emitted)][2] = "call_ended"
    /\ currentCall.status = "ended"
    /\ currentCall.endTime = clock
    /\ currentCall.agentId = "a2"
    /\ currentCall.id = <<"outbound", "a1", 0>>

\* C16: 'ended' and 'failed' are terminal: once currentCall has one of these
\* statuses, no step changes the status of that same call (same startTime) to
\* 'connecting' or 'connected'.
C16_Terminal ==
    [][(/\ currentCall.status \in {"ended", "failed"}
        /\ currentCall' # NoCall
        /\ currentCall'.startTime = currentCall.startTime)
       => currentCall'.status \notin {"connecting", "connected"}]_vars

\* C20: whenever currentCall is null and no call start is in progress in
\* ChatHistory, the TelephonyService holds no connected Room; and a call start
\* never replaces a Room that is still connected.
C20_NoRoomWithoutCall ==
    /\ []((currentCall = NoCall /\ outbound.stage = "idle") => heldRoom # "connected")
    /\ [][heldRoom = "connected" => (room' = room \/ room' = 0)]_vars

\* ==================================================== TelephonyService claims
\* C17: emit delivers the event exactly once to every handler registered when
\* the emit starts, in registration order, whatever the handlers do (throw,
\* removeEvent, onEvent) while the event is being delivered.
C17_EmitDelivery ==
    [][Len(emitted') = Len(emitted) + 1 =>
          received' = [k \in 1..Len(eventHandlers) |->
                          <<eventHandlers[k], emitted'[Len(emitted')][2]>>]]_vars

\* C18: endCall on a service that holds no room does nothing (no event); on a
\* service that holds a room it leaves the service without a room and exactly
\* one 'call_ended' has been emitted for that room.
C18_EndCallOnce ==
    /\ []((svcCall.op = "endCall" /\ svcCall.result = "resolved" /\ svcCall.hadRoom) =>
              (room = 0 /\ Count(emitted, <<svcCall.rm, "call_ended">>) = 1))
    /\ [][(svcCalls' = svcCalls + 1 /\ svcCall'.op = "endCall" /\ room = 0) =>
              (/\ svcCall'.result = "resolved"
               /\ UNCHANGED <<room, rooms, emitted, received, eventHandlers>>)]_vars

\* C19: a startOutboundCall that fails has emitted exactly one 'error', has
\* rethrown, and leaves the service holding no room: an endCall that follows
\* emits no 'call_ended' (it finds no room, so it does not go on to disconnect
\* and emit) and a setMicrophoneEnabled that follows throws 'Not connected to
\* room'.
C19_FailedStart ==
    /\ []((svcCall.op = "startOutboundCall" /\ svcCall.result = "rejected") =>
              (Count(emitted, <<svcCall.rm, "error">>) = 1 /\ room = 0))
    /\ [][(/\ svcCall.op = "startOutboundCall"
           /\ svcCall.result = "rejected"
           /\ svcCalls' = svcCalls + 1) =>
              /\ svcCall'.op = "endCall" => (svcCall'.result = "resolved" /\ emitted' = emitted)
              /\ svcCall'.op = "setMicrophoneEnabled" =>
                     svcCall'.result = "Not connected to room"]_vars

\* ===================================================== StatusPanel claims
\* C21: handleContextUpdate(c) sets isContextUpdating to true at once; when it
\* completes, context = c and isContextUpdating = false; neither step changes
\* agents, selectedAgent, currentSession, currentCall or files, so what other
\* handlers wrote to them while the update was in flight is still there.
C21_ContextUpdate ==
    /\ [][contextUpdates' # contextUpdates =>
             UNCHANGED <<agents, selectedAgent, currentSession, currentCall, files>>]_vars
    /\ [][Len(contextUpdates') > Len(contextUpdates) =>
             isContextUpdating' /\ context' = context]_vars
    /\ [][Len(contextUpdates') < Len(contextUpdates) =>
             \E i \in DOMAIN contextUpdates :
                 /\ contextUpdates' = RemoveAt(contextUpdates, i)
                 /\ context' = contextUpdates[i]
                 /\ ~isContextUpdating']_vars

\* a context update has completed, and the agents loaded, the agent selected
\* and the file uploaded by other handlers are in the state
C21_Witness ==
    /\ context = "c2"
    /\ ~isContextUpdating
    /\ contextUpdates = << >>
    /\ Len(agents) = 2
    /\ selectedAgent.id = "a2"
    /\ currentSession.agentId = "a2"
    /\ Len(files) = Len(mockFiles) + 1

\* C22: handleFileUpload appends the uploaded files, in order, after the
\* existing files, which stay as they are; handleFileDelete(id) removes exactly
\* the entries whose id is id and keeps the others in order; the ids in
\* appState.files are pairwise distinct, so a delete removes at most one file.
C22_Files ==
    /\ [](\A i, j \in DOMAIN files : i # j => files[i].id # files[j].id)
    /\ [][Len(files') > Len(files) =>
             /\ SubSeq(files', 1, Len(files)) = files
             /\ \E fileList \in FileLists :
                    /\ Len(files') = Len(files) + Len(fileList)
                    /\ \A k \in DOMAIN fileList : files'[Len(files) + k].name = fileList[k]]_vars
    /\ [][Len(files') < Len(files) =>
             /\ Len(files') = Len(files) - 1
             /\ \E fileId \in {files[i].id : i \in DOMAIN files} :
                    files' = SelectSeq(files, LAMBDA file : file.id # fileId)]_vars
====
